---- MODULE Spec2Model ----
(***************************************************************************)
(* A model of the Edupulse news pipeline: the two aggregators              *)
(* (news_fetcher.py, rss_fetcher.py), their source adapters and the         *)
(* extractive summarizer (summarization.py).                                *)
(*                                                                          *)
(* Text that the code only compares for equality or truthiness (titles,     *)
(* urls, credentials in the aggregators) is a TLC string.  Text that the    *)
(* code measures, slices, splits or searches is a sequence of               *)
(* one-character strings.                                                   *)
(***************************************************************************)
EXTENDS Integers, Sequences, FiniteSets, TLC

VARIABLES
    pc,           \* which call has completed: "idle" or the name of the call
    limit,        \* max_articles / max_results of the call
    newsapi_key,  \* NewsSourceFetcher.newsapi_key (os.getenv('NEWS_API_KEY'))
    calls,        \* the adapter invocations of the call, in order
    accumulated,  \* `articles` / `all_articles` when the fetch loop ends
    result,       \* what the call returned to its caller
    raised,       \* TRUE iff the call raised to its caller instead
    article,      \* the article handed to ArticleSummarizer.summarize
    max_sentences,\* its max_sentences
    max_length,   \* its max_length
    summary,      \* what summarize did: the string returned, or raised
    verdict,      \* what the TutorialLinkManager call on the article did
    now,          \* the clock (datetime.now()), in hours
    cache_file,   \* cache.json
    saved,        \* the last save_cache that succeeded: its time and articles
    cache_ret,    \* what the last CacheManager call returned
    screen,       \* what the last load_news did and what the news screen shows
    bookmarks,    \* BookmarkManager.bookmarks
    bookmarks_file, \* bookmarks.json
    book_ret,     \* the last BookmarkManager call: its url and what it returned
    notifier,     \* the NotificationManager, its scheduler thread and the clock it reads
    shelf,        \* the BookmarksScreen's own BookmarkManager and what the screen lists
    prefs,        \* user_preferences.json
    filtered      \* a call of fetch_from_source or extract_image made on its own:
                  \* its arguments and what it returned

vars == <<pc, limit, newsapi_key, calls, accumulated, result, raised,
          article, max_sentences, max_length, summary, verdict,
          now, cache_file, saved, cache_ret, screen,
          bookmarks, bookmarks_file, book_ret, notifier, shelf, prefs, filtered>>

\* The summarizer's part of the state.
sumvars == <<article, max_sentences, max_length, summary>>

\* The variables of the application's other components, and their values
\* while these components have done nothing.
cachevars == <<now, cache_file, saved, cache_ret, screen>>
bookvars == <<bookmarks, bookmarks_file, book_ret>>
sidevars == <<notifier, shelf, prefs, filtered>>
appvars == <<verdict, cachevars, bookvars, sidevars>>
IdleApp ==
    /\ verdict = [raised |-> FALSE, learn |-> FALSE, score |-> 0, topic |-> "none"]
    /\ now = 0
    /\ cache_file = [exists |-> FALSE, timestamp |-> 0, field |-> "none", articles |-> <<>>]
    /\ saved = [any |-> FALSE, time |-> 0, articles |-> <<>>]
    /\ cache_ret = [none |-> TRUE, articles |-> <<>>, flag |-> FALSE]
    /\ screen = [view |-> "loading", articles |-> <<>>, force |-> FALSE,
                 fetched |-> FALSE, got |-> <<>>, failed |-> FALSE]
    /\ bookmarks = <<>>
    /\ bookmarks_file = <<>>
    /\ book_ret = [url |-> "", value |-> FALSE]
    /\ notifier = [enabled |-> TRUE, thread |-> "none", clock |-> 0, day |-> 0,
                   current_time |-> 0, morning_sent_today |-> FALSE,
                   evening_sent_today |-> FALSE, mornings |-> 0, evenings |-> 0,
                   alive |-> 0]
    /\ shelf = [bookmarks |-> <<>>, listed |-> <<>>]
    /\ prefs = [exists |-> FALSE, field |-> "none"]
    /\ filtered = [query |-> <<>>, max_results |-> 0, feeds |-> <<>>, articles |-> <<>>]

(***************************************************************************)
(* Bounds of the model.                                                     *)
(***************************************************************************)
MaxLimit == 2      \* the calls are made with limit in 0 .. MaxLimit
MaxItems == 2      \* a source delivers at most this many items per request
MaxEntries == 2    \* a feed holds at most this many entries
MaxPieces == 2     \* an article's content is made of at most this many pieces
MaxSentences == 2  \* summarize is called with max_sentences in 1 .. MaxSentences

\* Python's None (a JSON null) and a key missing from a dict.
None == "<None>"
Absent == "<absent>"

\* Python truthiness of an optional string.
Truthy(s) == s # None /\ s # ""

\* dict.get(key, default): the default only when the key is missing.
Get(v, default) == IF v = Absent THEN default ELSE v

Min(a, b) == IF a <= b THEN a ELSE b

\* A slice that is forgotten: the whole list.
TakeAll(s, n) == s

\* s[:n] for n >= 0.
Take(s, n) == SubSeq(s, 1, Min(n, Len(s)))

\* All sequences over S of length at most n.
SeqsUpTo(S, n) == UNION {[1..k -> S] : k \in 0..n}

\* Those of them that hold no element twice.
DistinctSeqsUpTo(S, n) ==
    {s \in SeqsUpTo(S, n) : \A i, j \in 1..Len(s) : i # j => s[i] # s[j]}

\* What a called function did: returned a value or raised an exception.
\* `http` tells whether a network request was issued, `kind` what the network
\* answered, `tried` which feeds an RSS outlet's fetch went through.
Return(v) == [raised |-> FALSE, value |-> v, http |-> FALSE, kind |-> "none", tried |-> <<>>]
Raise == [raised |-> TRUE, value |-> <<>>, http |-> FALSE, kind |-> "none", tried |-> <<>>]
WithHttp(r, kind) == [r EXCEPT !.http = TRUE, !.kind = kind]

(***************************************************************************)
(* Text as sequences of one-character strings.                              *)
(***************************************************************************)

\* The characters of the model, in code point order.
Chars ==
    << "\n", " ", "!", ",", "-", ".",
       "0", "1", "2", "3", "4", "5", "6", "7", "8", "9", ":", "?",
       "A", "B", "C", "D", "E", "F", "G", "H", "I", "J", "K", "L", "M",
       "N", "O", "P", "Q", "R", "S", "T", "U", "V", "W", "X", "Y", "Z",
       "a", "b", "c", "d", "e", "f", "g", "h", "i", "j", "k", "l", "m",
       "n", "o", "p", "q", "r", "s", "t", "u", "v", "w", "x", "y", "z" >>

CharSet == {Chars[i] : i \in 1..Len(Chars)}

\* The rank of a character in code point order.
Ord == [c \in CharSet |-> CHOOSE i \in 1..Len(Chars) : Chars[i] = c]

Upper == << "A", "B", "C", "D", "E", "F", "G", "H", "I", "J", "K", "L", "M",
            "N", "O", "P", "Q", "R", "S", "T", "U", "V", "W", "X", "Y", "Z" >>

LowerOf == << "a", "b", "c", "d", "e", "f", "g", "h", "i", "j", "k", "l", "m",
              "n", "o", "p", "q", "r", "s", "t", "u", "v", "w", "x", "y", "z" >>

IsDigit(c) == c \in {"0", "1", "2", "3", "4", "5", "6", "7", "8", "9"}
Whitespace == {" ", "\n"}
IsSpace(c) == c \in Whitespace

\* The lower-case form of every character.
LowerChar ==
    [c \in CharSet |->
        IF \E i \in 1..Len(Upper) : Upper[i] = c
        THEN LowerOf[CHOOSE i \in 1..Len(Upper) : Upper[i] = c]
        ELSE c]

\* The sequence f with every element worked out once.
AsSeq(f) == SubSeq(f, 1, Len(f))

\* str.lower()
Lower(s) == AsSeq([i \in 1..Len(s) |-> LowerChar[s[i]]])

\* `needle in hay` for strings.
Contains(hay, needle) ==
    \E i \in 0..(Len(hay) - Len(needle)) :
        \A j \in 1..Len(needle) : hay[i + j] = needle[j]

\* a < b for strings: lexicographic by code point.
StrLess(a, b) ==
    LET n == Min(Len(a), Len(b))
        diff == {i \in 1..n : a[i] # b[i]}
    IN  IF diff = {}
        THEN Len(a) < Len(b)
        ELSE LET d == CHOOSE i \in diff : \A j \in diff : i <= j
             IN  Ord[a[d]] < Ord[b[d]]

\* The k-th smallest element of a set of numbers.
Kth(set, k) == CHOOSE x \in set : Cardinality({y \in set : y < x}) = k - 1

\* The maximal runs of characters of s that are not separators, in order.
Runs(s, seps) ==
    LET n == Len(s)
        starts == {i \in 1..n : s[i] \notin seps /\ (i = 1 \/ s[i - 1] \in seps)}
        ends == {j \in 1..n : s[j] \notin seps /\ (j = n \/ s[j + 1] \in seps)}
    IN  AsSeq([k \in 1..Cardinality(starts) |-> SubSeq(s, Kth(starts, k), Kth(ends, k))])

\* str.split(): the maximal runs of non-whitespace characters.
Split(s) == Runs(s, Whitespace)

\* str.strip()
Strip(s) ==
    LET n == Len(s)
        first == {i \in 1..n : ~IsSpace(s[i]) /\ \A j \in 1..(i - 1) : IsSpace(s[j])}
        last == {i \in 1..n : ~IsSpace(s[i]) /\ \A j \in (i + 1)..n : IsSpace(s[j])}
    IN  IF first = {} THEN <<>>
        ELSE SubSeq(s, CHOOSE i \in first : TRUE, CHOOSE i \in last : TRUE)

\* ' '.join(parts)
RECURSIVE Join(_)
Join(parts) ==
    IF parts = <<>> THEN <<>>
    ELSE IF Len(parts) = 1 THEN parts[1]
    ELSE parts[1] \o <<" ">> \o Join(Tail(parts))

(***************************************************************************)
(* news_fetcher.py                                                          *)
(***************************************************************************)

\* What requests.get(...), raise_for_status() and response.json() can do.
\*   "timeout"/"connection" : requests.get raises
\*   "status"               : raise_for_status raises on a 4xx/5xx
\*   "not_json"             : response.json() raises
\*   "not_object"           : the body is JSON but not an object, so data.get raises
\*   "ok"                   : the body is an object holding `items`
ResponseKinds == {"timeout", "connection", "status", "not_json", "not_object", "ok"}

\* Items a Guardian response can hold: webTitle, shortUrl, bodyText.
GuardianItems ==
    { [webTitle |-> "A",    shortUrl |-> "g1", bodyText |-> "text"],
      [webTitle |-> "A",    shortUrl |-> "g2", bodyText |-> Absent],
      [webTitle |-> "B",    shortUrl |-> "g3", bodyText |-> ""],
      [webTitle |-> Absent, shortUrl |-> "g4", bodyText |-> "text"] }

\* Items a NewsAPI response can hold: title, url, content.
NewsApiItems ==
    { [title |-> "A",  url |-> "n1", content |-> "snippet"],
      [title |-> "C",  url |-> "n2", content |-> None],
      [title |-> None, url |-> "n3", content |-> "snippet"],
      [title |-> "",   url |-> "n4", content |-> ""] }

Failures == {[kind |-> k, items |-> <<>>] : k \in ResponseKinds \ {"ok"}}

GuardianResponses ==
    Failures \cup {[kind |-> "ok", items |-> s] : s \in SeqsUpTo(GuardianItems, MaxItems)}

NewsApiResponses ==
    Failures \cup {[kind |-> "ok", items |-> s] : s \in SeqsUpTo(NewsApiItems, MaxItems)}

\* The article built from one Guardian result.
GuardianArticle(item) ==
    [ title            |-> Get(item.webTitle, "No Title"),
      content          |-> Get(item.bodyText, ""),
      url              |-> item.shortUrl,
      source           |-> "The Guardian",
      has_full_content |-> TRUE ]

\* The article built from one NewsAPI result.
NewsApiArticle(item) ==
    [ title            |-> Get(item.title, "No Title"),
      content          |-> Get(item.content, ""),
      url              |-> item.url,
      source           |-> "newsapi",
      has_full_content |-> FALSE ]

\* ArticleReader.get_full_text(article): (has_full_text, content).
get_full_text(a) ==
    IF a.has_full_content /\ Truthy(a.content)
    THEN [has_full_text |-> TRUE, content |-> a.content]
    ELSE [has_full_text |-> FALSE,
          content |-> "Full article not available. Click 'Open in Browser' to read more."]

\* A Guardian adapter that catches its own errors and returns [].
fetch_from_guardian_catching(resp, max_articles) ==
    IF resp.kind # "ok"
    THEN WithHttp(Return(<<>>), resp.kind)
    ELSE WithHttp(Return([i \in 1..Len(resp.items) |-> GuardianArticle(resp.items[i])]), "ok")

\* NewsSourceFetcher._fetch_from_guardian: one GET, then every delivered
\* result is mapped; nothing is caught and nothing is cut to max_articles.
fetch_from_guardian(resp, max_articles) ==
    IF resp.kind # "ok"
    THEN WithHttp(Raise, resp.kind)
    ELSE WithHttp(Return([i \in 1..Len(resp.items) |-> GuardianArticle(resp.items[i])]), "ok")

\* A NewsAPI adapter without the credential test.
fetch_from_newsapi_unguarded(key, resp, max_articles) ==
    IF resp.kind # "ok"
    THEN WithHttp(Raise, resp.kind)
    ELSE WithHttp(Return([i \in 1..Len(resp.items) |-> NewsApiArticle(resp.items[i])]), "ok")

\* NewsSourceFetcher._fetch_from_newsapi: no request without a key.
fetch_from_newsapi(key, resp, max_articles) ==
    IF ~Truthy(key)
    THEN Return(<<>>)
    ELSE IF resp.kind # "ok"
         THEN WithHttp(Raise, resp.kind)
         ELSE WithHttp(Return([i \in 1..Len(resp.items) |-> NewsApiArticle(resp.items[i])]), "ok")

\* The `sources` list of fetch_news.
Sources == <<"guardian", "newsapi">>

CallSource(name, key, resp, max_articles) ==
    IF name = "guardian"
    THEN fetch_from_guardian(resp, max_articles)
    ELSE fetch_from_newsapi(key, resp, max_articles)

\* One entry of the invocation log.
CallRecord(name, r) ==
    [name |-> name, raised |-> r.raised, returned |-> r.value, http |-> r.http,
     kind |-> r.kind, tried |-> r.tried]

\* A loop body without the try/except: the adapter's exception escapes.
LoopBodyNoExcept(articles, r, max_articles) ==
    IF r.raised
    THEN [articles |-> articles, go |-> FALSE, raised |-> TRUE]
    ELSE IF r.value # <<>>
         THEN [articles |-> articles \o r.value,
               go |-> ~(Len(articles \o r.value) >= max_articles),
               raised |-> FALSE]
         ELSE [articles |-> articles, go |-> TRUE, raised |-> FALSE]

\* A loop body without the `break`.
LoopBodyNoBreak(articles, r, max_articles) ==
    IF r.raised
    THEN [articles |-> articles, go |-> TRUE, raised |-> FALSE]
    ELSE [articles |-> articles \o r.value, go |-> TRUE, raised |-> FALSE]

\* The body of `for fetch_method in sources` for one adapter outcome r:
\* the accumulated list and whether the loop goes on.
\* try: fetched = ...; if fetched: extend; if len >= max: break
\* except Exception: continue
LoopBody(articles, r, max_articles) ==
    IF r.raised
    THEN [articles |-> articles, go |-> TRUE, raised |-> FALSE]
    ELSE IF r.value # <<>>
         THEN [articles |-> articles \o r.value,
               go |-> ~(Len(articles \o r.value) >= max_articles),
               raised |-> FALSE]
         ELSE [articles |-> articles, go |-> TRUE, raised |-> FALSE]

\* The fetch loop from source i on: the accumulated articles, the
\* invocation log and whether an exception escaped the loop.
RECURSIVE FetchLoop(_, _, _, _, _, _)
FetchLoop(i, articles, log, key, env, max_articles) ==
    IF i > Len(Sources)
    THEN [articles |-> articles, log |-> log, raised |-> FALSE]
    ELSE LET r == CallSource(Sources[i], key, env[i], max_articles)
             b == LoopBody(articles, r, max_articles)
             log2 == Append(log, CallRecord(Sources[i], r))
         IN  IF b.raised
             THEN [articles |-> b.articles, log |-> log2, raised |-> TRUE]
             ELSE IF b.go
                  THEN FetchLoop(i + 1, b.articles, log2, key, env, max_articles)
                  ELSE [articles |-> b.articles, log |-> log2, raised |-> FALSE]

\* A deduplication keyed on the url instead of the title.
RECURSIVE DedupByUrl(_, _)
DedupByUrl(articles, seen) ==
    IF articles = <<>>
    THEN <<>>
    ELSE LET a == Head(articles)
         IN  IF Truthy(a.title) /\ a.url \notin seen
             THEN <<a>> \o DedupByUrl(Tail(articles), seen \cup {a.url})
             ELSE DedupByUrl(Tail(articles), seen)

\* `if title and title not in seen_titles` over the accumulated list.
RECURSIVE Dedup(_, _)
Dedup(articles, seen_titles) ==
    IF articles = <<>>
    THEN <<>>
    ELSE LET a == Head(articles)
         IN  IF Truthy(a.title) /\ a.title \notin seen_titles
             THEN <<a>> \o Dedup(Tail(articles), seen_titles \cup {a.title})
             ELSE Dedup(Tail(articles), seen_titles)

\* NewsSourceFetcher.fetch_news(query, max_articles).
NewsFetchNews ==
    /\ pc = "idle"
    /\ \E max_articles \in 0..MaxLimit, key \in {None, "", "k"},
          g \in GuardianResponses, n \in NewsApiResponses :
          LET run == FetchLoop(1, <<>>, <<>>, key, <<g, n>>, max_articles)
          IN  /\ limit' = max_articles
              /\ newsapi_key' = key
              /\ calls' = run.log
              /\ accumulated' = run.articles
              /\ raised' = run.raised
              /\ result' = IF run.raised THEN <<>>
                           ELSE Take(Dedup(run.articles, {}), max_articles)
              /\ pc' = "news"
    /\ UNCHANGED <<sumvars, appvars>>

(***************************************************************************)
(* rss_fetcher.py                                                           *)
(***************************************************************************)

\* RSSNewsFetcher.rss_feeds, reduced to its first two outlets and to the
\* first two feeds of the first: outlet name and feed urls, in dict order.
rss_feeds ==
    << [name |-> "bbc", feeds |-> <<"bbci/news", "bbci/technology">>],
       [name |-> "npr", feeds |-> <<"npr/1001">>] >>

\* Every feed url of the table.
FeedUrls == UNION {{rss_feeds[i].feeds[j] : j \in 1..Len(rss_feeds[i].feeds)} : i \in 1..Len(rss_feeds)}

\* The query of the calls.
RssQuery == <<"a", "i">>

\* Published strings of the entries and what feedparser makes of them.
Rfc2Nov == <<"M", "o", "n", ",", " ", "0", "2", " ", "N", "o", "v", " ", "2", "0", "2", "6", " ", "0", "0", ":", "0", "0", ":", "0", "0">>
Rfc1Nov == <<"S", "u", "n", ",", " ", "0", "1", " ", "N", "o", "v", " ", "2", "0", "2", "6", " ", "0", "0", ":", "0", "0", ":", "0", "0">>
Iso2Nov == <<"2", "0", "2", "6", "-", "1", "1", "-", "0", "2", "T", "0", "0", ":", "0", "0", ":", "0", "0">>
Iso1Nov == <<"2", "0", "2", "6", "-", "1", "1", "-", "0", "1", "T", "0", "0", ":", "0", "0", ":", "0", "0">>
Unparsed == <<"y", "e", "s", "t", "e", "r", "d", "a", "y">>

\* RSSNewsFetcher.parse_date: the ISO form of a date feedparser can parse,
\* the string itself otherwise.
parse_date(date_str) ==
    IF date_str = Rfc2Nov THEN Iso2Nov
    ELSE IF date_str = Rfc1Nov THEN Iso1Nov
    ELSE date_str

\* Entries a feed can hold: title, summary, link, published.  The first two
\* match the query by their title, the third by its summary, the fourth does
\* not match.
FeedEntries ==
    { [title |-> <<"A", "I">>, summary |-> <<>>, link |-> "l1", published |-> Rfc2Nov],
      [title |-> <<"A", "I">>, summary |-> <<>>, link |-> "l2", published |-> Rfc1Nov],
      [title |-> <<"G", "o">>, summary |-> <<"F", "a", "i", "r">>, link |-> "l3", published |-> Unparsed],
      [title |-> <<"G", "o">>, summary |-> <<>>, link |-> "l4", published |-> Rfc2Nov] }

\* What feedparser.parse(feed_url) can do: raise, or return the entries of
\* the feed (a feed lists an entry once; two feeds may list the same one).
FeedOutcomes ==
    {[kind |-> "error", entries |-> <<>>]}
        \cup {[kind |-> "ok", entries |-> s] : s \in DistinctSeqsUpTo(FeedEntries, MaxEntries)}

\* A query_matches that wants more than half of the query's words.
query_matches_majority(query, text) ==
    LET query_words == Split(query)
        matches == Cardinality({i \in 1..Len(query_words) : Contains(text, query_words[i])})
    IN  2 * matches > Len(query_words)

\* RSSNewsFetcher.query_matches: at least half of the query's words occur.
query_matches(query, text) ==
    LET query_words == Split(query)
        matches == Cardinality({i \in 1..Len(query_words) : Contains(text, query_words[i])})
    IN  2 * matches >= Len(query_words)

\* The test of fetch_from_source on one entry.
EntryMatches(entry, query_lower) ==
    LET title_lower == Lower(entry.title)
        summary_lower == Lower(entry.summary)
    IN  \/ Contains(title_lower, query_lower)
        \/ Contains(summary_lower, query_lower)
        \/ query_matches(query_lower, title_lower \o <<" ">> \o summary_lower)

\* RSSNewsFetcher.parse_entry for an entry it can parse (the entries of the
\* model hold plain text and no media, so clean_html and extract_image have
\* nothing to do).  `source` is the outlet, whose name the code upper-cases.
parse_entry(entry, source_name) ==
    [ title          |-> entry.title,
      description    |-> entry.summary,
      url            |-> entry.link,
      publishedAt    |-> entry.published,
      published_date |-> parse_date(entry.published),
      source         |-> source_name ]

\* The matching entries of `entries`, parsed, in order.
RECURSIVE MatchingArticles(_, _, _)
MatchingArticles(entries, source_name, query_lower) ==
    IF entries = <<>>
    THEN <<>>
    ELSE (IF EntryMatches(Head(entries), query_lower)
          THEN <<parse_entry(Head(entries), source_name)>>
          ELSE <<>>)
         \o MatchingArticles(Tail(entries), source_name, query_lower)

\* The body of `for feed_url in feeds` for one feed outcome: the articles
\* so far and whether the loop goes on.  An exception is caught per feed.
FeedBody(articles, outcome, source_name, query_lower, max_results) ==
    IF outcome.kind = "error"
    THEN [articles |-> articles, go |-> TRUE]
    ELSE LET more == articles \o MatchingArticles(Take(outcome.entries, max_results),
                                                  source_name, query_lower)
         IN  [articles |-> more, go |-> ~(Len(more) >= max_results)]

\* The feed loop of fetch_from_source from feed j on: the articles and the
\* feeds gone through with what each did.
RECURSIVE FeedLoop(_, _, _, _, _, _, _, _)
FeedLoop(j, articles, tried, source_name, feeds, query_lower, max_results, env) ==
    IF j > Len(feeds)
    THEN [articles |-> articles, tried |-> tried]
    ELSE LET b == FeedBody(articles, env[feeds[j]], source_name, query_lower, max_results)
             tried2 == Append(tried, [feed |-> feeds[j], kind |-> env[feeds[j]].kind,
                                      delivered |-> Len(env[feeds[j]].entries)])
         IN  IF b.go
             THEN FeedLoop(j + 1, b.articles, tried2, source_name, feeds, query_lower,
                           max_results, env)
             ELSE [articles |-> b.articles, tried |-> tried2]

\* RSSNewsFetcher.fetch_from_source(source_name, feeds, query, max_results).
fetch_from_source(source_name, feeds, query, max_results, env) ==
    LET run == FeedLoop(1, <<>>, <<>>, source_name, feeds, Lower(query), max_results, env)
    IN  [WithHttp(Return(run.articles), "feeds") EXCEPT !.tried = run.tried]

\* The queries of the calls of fetch_from_source: "AI", "ai go", "ai go to".
FilterQueries ==
    {<<"A", "I">>, <<"a", "i", " ", "g", "o">>,
     <<"a", "i", " ", "g", "o", " ", "t", "o">>}

\* fetcher.fetch_from_source('bbc', feeds, query, max_results) on the first
\* outlet of the table: the feeds it went through, with what feedparser
\* returned for them, and the articles it returned.
FetchFromSource ==
    /\ pc = "idle"
    /\ \E query \in FilterQueries, max_results \in 0..MaxLimit,
          env \in [{rss_feeds[1].feeds[j] : j \in 1..Len(rss_feeds[1].feeds)} -> FeedOutcomes] :
          LET r == fetch_from_source(rss_feeds[1].name, rss_feeds[1].feeds, query,
                                     max_results, env)
          IN  filtered' = [query |-> query, max_results |-> max_results,
                           feeds |-> [j \in 1..Len(r.tried) |-> env[r.tried[j].feed]],
                           articles |-> r.value]
    /\ pc' = "fetch_from_source"
    /\ UNCHANGED <<limit, newsapi_key, calls, accumulated, result, raised, sumvars,
                   verdict, cachevars, bookvars, notifier, shelf, prefs>>

\* The media fields an entry can carry besides its title: media_content and
\* media_thumbnail (an empty list, one item without or with a url), enclosures
\* (an empty list, or items with a type and an href); each key may be missing.
ImageEntries ==
    LET image == <<"i", "m", "a", "g", "e", "/", "p", "n", "g">>
        audio == <<"a", "u", "d", "i", "o">>
        Maybe(key, values) == {[title |-> "Robots"]} \cup {key :> v : v \in values}
    IN  {c @@ t @@ n :
           c \in Maybe("media_content", {<<>>, <<[medium |-> "image"]>>,
                                         <<[medium |-> "image", url |-> "content.png"]>>}),
           t \in Maybe("media_thumbnail", {<<>>, <<[width |-> "64"]>>,
                                           <<[width |-> "64", url |-> "thumb.png"]>>}),
           n \in Maybe("enclosures",
                       {<<>>,
                        <<[type |-> image, href |-> "first.png"]>>,
                        <<[type |-> audio, href |-> "talk.mp3"]>>,
                        <<[type |-> audio, href |-> "talk.mp3"],
                          [type |-> image, href |-> "first.png"]>>,
                        <<[type |-> image, length |-> "0"],
                          [type |-> image, href |-> "second.png"]>>,
                        <<[href |-> "untyped.png"]>>})}

\* dict.get(key, default)
GetKey(d, key, default) == IF key \in DOMAIN d THEN d[key] ELSE default

\* RSSNewsFetcher.extract_image(entry); [0] of an empty list raises
\* IndexError.
extract_image(entry) ==
    IF "media_content" \in DOMAIN entry
    THEN IF entry.media_content = <<>> THEN Raise
         ELSE Return(GetKey(entry.media_content[1], "url", ""))
    ELSE IF "media_thumbnail" \in DOMAIN entry
    THEN IF entry.media_thumbnail = <<>> THEN Raise
         ELSE Return(GetKey(entry.media_thumbnail[1], "url", ""))
    ELSE IF "enclosures" \in DOMAIN entry /\ entry.enclosures # <<>>
    THEN LET images == SelectSeq(entry.enclosures,
                           LAMBDA enc : Contains(GetKey(enc, "type", <<>>), <<"i", "m", "a", "g", "e">>))
         IN  IF images = <<>> THEN Return("") ELSE Return(GetKey(images[1], "href", ""))
    ELSE Return("")

\* fetcher.extract_image(entry)
ExtractImage ==
    /\ pc = "idle"
    /\ \E entry \in ImageEntries :
          filtered' = [entry |-> entry, image |-> extract_image(entry)]
    /\ pc' = "extract_image"
    /\ UNCHANGED <<limit, newsapi_key, calls, accumulated, result, raised, sumvars,
                   verdict, cachevars, bookvars, notifier, shelf, prefs>>

\* The body of `for source_name, feeds in self.rss_feeds.items()`.
SourceBody(all_articles, r, max_results) ==
    IF r.raised
    THEN [articles |-> all_articles, go |-> TRUE]
    ELSE [articles |-> all_articles \o r.value,
          go |-> ~(Len(all_articles \o r.value) >= max_results)]

\* The source loop of RSSNewsFetcher.fetch_news from outlet i on.
RECURSIVE SourceLoop(_, _, _, _, _, _)
SourceLoop(i, all_articles, log, query, max_results, env) ==
    IF i > Len(rss_feeds)
    THEN [articles |-> all_articles, log |-> log]
    ELSE LET r == fetch_from_source(rss_feeds[i].name, rss_feeds[i].feeds, query, max_results, env)
             b == SourceBody(all_articles, r, max_results)
             log2 == Append(log, CallRecord(rss_feeds[i].name, r))
         IN  IF b.go
             THEN SourceLoop(i + 1, b.articles, log2, query, max_results, env)
             ELSE [articles |-> b.articles, log |-> log2]

\* The key of the sort.
SortKey(a) == a.published_date

\* A sort without reverse=True: ascending and stable.
RECURSIVE SortAscending(_)
SortAscending(articles) ==
    IF articles = <<>>
    THEN <<>>
    ELSE LET n == Len(articles)
             x == articles[n]
             rest == SortAscending(SubSeq(articles, 1, n - 1))
             k == Cardinality({i \in 1..Len(rest) : ~StrLess(SortKey(x), SortKey(rest[i]))})
         IN  SubSeq(rest, 1, k) \o <<x>> \o SubSeq(rest, k + 1, Len(rest))

\* list.sort(key=..., reverse=True): descending and stable, so articles of
\* equal key keep their order.
RECURSIVE SortDescending(_)
SortDescending(articles) ==
    IF articles = <<>>
    THEN <<>>
    ELSE LET n == Len(articles)
             x == articles[n]
             rest == SortDescending(SubSeq(articles, 1, n - 1))
             \* x goes after every article whose key is not below its own
             k == Cardinality({i \in 1..Len(rest) : ~StrLess(SortKey(rest[i]), SortKey(x))})
         IN  SubSeq(rest, 1, k) \o <<x>> \o SubSeq(rest, k + 1, Len(rest))

\* RSSNewsFetcher.fetch_news(query, max_results).
RssFetchNews ==
    /\ pc = "idle"
    /\ \E max_results \in 0..MaxLimit, env \in [FeedUrls -> FeedOutcomes] :
          LET run == SourceLoop(1, <<>>, <<>>, RssQuery, max_results, env)
          IN  /\ limit' = max_results
              /\ calls' = run.log
              /\ accumulated' = run.articles
              /\ raised' = FALSE
              /\ result' = Take(SortDescending(run.articles), max_results)
              /\ pc' = "rss"
    /\ UNCHANGED <<newsapi_key, sumvars, appvars>>

\* The caller drops the result; the next call starts afresh.
Reset ==
    /\ pc # "idle"
    /\ pc' = "idle"
    /\ limit' = 0
    /\ newsapi_key' = None
    /\ calls' = <<>>
    /\ accumulated' = <<>>
    /\ result' = <<>>
    /\ raised' = FALSE
    /\ UNCHANGED <<sumvars, appvars>>

Init ==
    /\ pc = "idle"
    /\ limit = 0
    /\ newsapi_key = None
    /\ calls = <<>>
    /\ accumulated = <<>>
    /\ result = <<>>
    /\ raised = FALSE
    /\ article = [title |-> <<>>, description |-> <<>>, content |-> <<>>]
    /\ max_sentences = 3
    /\ max_length = 250
    /\ summary = [raised |-> FALSE, value |-> <<>>, path |-> "none"]
    /\ IdleApp

Next == NewsFetchNews \/ RssFetchNews \/ Reset

Spec == Init /\ [][Next]_vars

\* One call of fetch_from_source alone.
NextFilter == FetchFromSource

SpecFilter == Init /\ [][NextFilter]_vars

\* One call of extract_image alone.
NextImage == ExtractImage

SpecImage == Init /\ [][NextImage]_vars

(***************************************************************************)
(* summarization.py                                                         *)
(***************************************************************************)

\* ArticleSummarizer.stop_words
stop_words ==
    {
      <<"t", "h", "e">>, <<"a">>, <<"a", "n">>, <<"a", "n", "d">>, <<"o", "r">>, <<"b", "u", "t">>,
      <<"i", "n">>, <<"o", "n">>, <<"a", "t">>, <<"t", "o">>, <<"f", "o", "r">>, <<"o", "f">>,
      <<"w", "i", "t", "h">>, <<"b", "y">>, <<"f", "r", "o", "m">>, <<"a", "s">>, <<"i", "s">>,
      <<"w", "a", "s">>, <<"a", "r", "e">>, <<"b", "e", "e", "n">>, <<"b", "e">>,
      <<"h", "a", "v", "e">>, <<"h", "a", "s">>, <<"h", "a", "d">>, <<"d", "o">>,
      <<"d", "o", "e", "s">>, <<"d", "i", "d">>, <<"w", "i", "l", "l">>,
      <<"w", "o", "u", "l", "d">>, <<"s", "h", "o", "u", "l", "d">>, <<"c", "o", "u", "l", "d">>,
      <<"m", "a", "y">>, <<"m", "i", "g", "h", "t">>, <<"m", "u", "s", "t">>, <<"c", "a", "n">>,
      <<"t", "h", "i", "s">>, <<"t", "h", "a", "t">>, <<"t", "h", "e", "s", "e">>,
      <<"t", "h", "o", "s", "e">>, <<"i">>, <<"y", "o", "u">>, <<"h", "e">>, <<"s", "h", "e">>,
      <<"i", "t">>, <<"w", "e">>, <<"t", "h", "e", "y">>, <<"w", "h", "a", "t">>,
      <<"w", "h", "i", "c", "h">>, <<"w", "h", "o">>, <<"w", "h", "e", "n">>,
      <<"w", "h", "e", "r", "e">>, <<"w", "h", "y">>, <<"h", "o", "w">>, <<"a", "l", "l">>,
      <<"e", "a", "c", "h">>, <<"e", "v", "e", "r", "y">>, <<"b", "o", "t", "h">>,
      <<"f", "e", "w">>, <<"m", "o", "r", "e">>, <<"m", "o", "s", "t">>,
      <<"o", "t", "h", "e", "r">>, <<"s", "o", "m", "e">>, <<"s", "u", "c", "h">>, <<"n", "o">>,
      <<"n", "o", "r">>, <<"n", "o", "t">>, <<"o", "n", "l", "y">>, <<"o", "w", "n">>,
      <<"s", "a", "m", "e">>, <<"s", "o">>, <<"t", "h", "a", "n">>, <<"t", "o", "o">>,
      <<"v", "e", "r", "y">>, <<"j", "u", "s", "t">>, <<"s", "a", "i", "d">>,
      <<"s", "a", "y", "s">> }

\* ArticleSummarizer.important_keywords
important_keywords ==
    {
      <<"n", "e", "w">>, <<"r", "e", "s", "e", "a", "r", "c", "h">>, <<"s", "t", "u", "d", "y">>,
      <<"d", "i", "s", "c", "o", "v", "e", "r">>, <<"f", "o", "u", "n", "d">>,
      <<"r", "e", "v", "e", "a", "l">>, <<"s", "h", "o", "w">>,
      <<"d", "e", "v", "e", "l", "o", "p">>, <<"c", "r", "e", "a", "t", "e">>,
      <<"b", "u", "i", "l", "d">>, <<"l", "a", "u", "n", "c", "h">>,
      <<"a", "n", "n", "o", "u", "n", "c", "e">>, <<"r", "e", "l", "e", "a", "s", "e">>,
      <<"i", "m", "p", "o", "r", "t", "a", "n", "t">>,
      <<"s", "i", "g", "n", "i", "f", "i", "c", "a", "n", "t">>, <<"m", "a", "j", "o", "r">>,
      <<"b", "r", "e", "a", "k", "t", "h", "r", "o", "u", "g", "h">>,
      <<"i", "n", "n", "o", "v", "a", "t", "i", "o", "n">>, <<"f", "i", "r", "s", "t">>,
      <<"l", "a", "t", "e", "s", "t">>, <<"u", "p", "d", "a", "t", "e">>,
      <<"i", "m", "p", "r", "o", "v", "e">>, <<"a", "d", "v", "a", "n", "c", "e">>,
      <<"t", "e", "c", "h", "n", "o", "l", "o", "g", "y">> }

\* "AI lab"
TitleShort ==
    << "A", "I", " ", "l", "a", "b" >>

\* "New AI breakthrough in medicine"
TitleLong ==
    << "N", "e", "w", " ", "A", "I", " ", "b", "r", "e", "a", "k", "t", "h", "r", "o", "u", "g",
       "h", " ", "i", "n", " ", "m", "e", "d", "i", "c", "i", "n", "e" >>

\* "Researchers announce a significant discovery"
DescSentence ==
    << "R", "e", "s", "e", "a", "r", "c", "h", "e", "r", "s", " ", "a", "n", "n", "o", "u", "n",
       "c", "e", " ", "a", " ", "s", "i", "g", "n", "i", "f", "i", "c", "a", "n", "t", " ", "d",
       "i", "s", "c", "o", "v", "e", "r", "y" >>

\* "word word word word word word word word ... (300 characters)"
DescRunOn ==
    << "w", "o", "r", "d", " ", "w", "o", "r", "d", " ", "w", "o", "r", "d", " ", "w", "o", "r",
       "d", " ", "w", "o", "r", "d", " ", "w", "o", "r", "d", " ", "w", "o", "r", "d", " ", "w",
       "o", "r", "d", " ", "w", "o", "r", "d", " ", "w", "o", "r", "d", " ", "w", "o", "r", "d",
       " ", "w", "o", "r", "d", " ", "w", "o", "r", "d", " ", "w", "o", "r", "d", " ", "w", "o",
       "r", "d", " ", "w", "o", "r", "d", " ", "w", "o", "r", "d", " ", "w", "o", "r", "d", " ",
       "w", "o", "r", "d", " ", "w", "o", "r", "d", " ", "w", "o", "r", "d", " ", "w", "o", "r",
       "d", " ", "w", "o", "r", "d", " ", "w", "o", "r", "d", " ", "w", "o", "r", "d", " ", "w",
       "o", "r", "d", " ", "w", "o", "r", "d", " ", "w", "o", "r", "d", " ", "w", "o", "r", "d",
       " ", "w", "o", "r", "d", " ", "w", "o", "r", "d", " ", "w", "o", "r", "d", " ", "w", "o",
       "r", "d", " ", "w", "o", "r", "d", " ", "w", "o", "r", "d", " ", "w", "o", "r", "d", " ",
       "w", "o", "r", "d", " ", "w", "o", "r", "d", " ", "w", "o", "r", "d", " ", "w", "o", "r",
       "d", " ", "w", "o", "r", "d", " ", "w", "o", "r", "d", " ", "w", "o", "r", "d", " ", "w",
       "o", "r", "d", " ", "w", "o", "r", "d", " ", "w", "o", "r", "d", " ", "w", "o", "r", "d",
       " ", "w", "o", "r", "d", " ", "w", "o", "r", "d", " ", "w", "o", "r", "d", " ", "w", "o",
       "r", "d", " ", "w", "o", "r", "d", " ", "w", "o", "r", "d", " ", "w", "o", "r", "d", " ",
       "w", "o", "r", "d", " ", "w", "o", "r", "d", " ", "w", "o", "r", "d", " ", "w", "o", "r",
       "d", " ", "w", "o", "r", "d", " ", "w", "o", "r", "d", "s" >>

\* "Scientists develop new technology for research labs. "
PieceLead ==
    << "S", "c", "i", "e", "n", "t", "i", "s", "t", "s", " ", "d", "e", "v", "e", "l", "o", "p",
       " ", "n", "e", "w", " ", "t", "e", "c", "h", "n", "o", "l", "o", "g", "y", " ", "f", "o",
       "r", " ", "r", "e", "s", "e", "a", "r", "c", "h", " ", "l", "a", "b", "s", ".", " " >>

\* "They said it was good! "
PieceMin ==
    << "T", "h", "e", "y", " ", "s", "a", "i", "d", " ", "i", "t", " ", "w", "a", "s", " ", "g",
       "o", "o", "d", "!", " " >>

\* "Ok then we shall see. "
PieceFragment ==
    << "O", "k", " ", "t", "h", "e", "n", " ", "w", "e", " ", "s", "h", "a", "l", "l", " ", "s",
       "e", "e", ".", " " >>

\* "Is it ok to go on by 12 or 345? "
PieceNoWords ==
    << "I", "s", " ", "i", "t", " ", "o", "k", " ", "t", "o", " ", "g", "o", " ", "o", "n", " ",
       "b", "y", " ", "1", "2", " ", "o", "r", " ", "3", "4", "5", "?", " " >>

\* "Research labs develop new technology for scientists. ": the words of PieceLead in another order.
PieceTie ==
    << "R", "e", "s", "e", "a", "r", "c", "h", " ", "l", "a", "b", "s", " ", "d", "e", "v", "e",
       "l", "o", "p", " ", "n", "e", "w", " ", "t", "e", "c", "h", "n", "o", "l", "o", "g", "y",
       " ", "f", "o", "r", " ", "s", "c", "i", "e", "n", "t", "i", "s", "t", "s", ".", " " >>

\* A run-on paragraph: the 300 characters of DescRunOn and ". ".
PieceRunOn == DescRunOn \o <<".", " ">>

\* A field of an article that holds None, and one the article lacks.
NoneText == <<"<None>">>
AbsentText == <<"<absent>">>

\* article.get(key, '')
GetText(v) == IF v = AbsentText THEN <<>> ELSE v

\* A field inside an f-string: None prints as "None".
FStr(v) == IF v = NoneText THEN <<"N", "o", "n", "e">> ELSE v

\* 100 typed as 10, and a length test that keeps 20 characters (>= for >).
ShortTextTypo == 100 \div 10
MinSentenceInclusive == 20 - 1

\* The thresholds of summarize and split_into_sentences.
ShortText == 100
MinSentence == 20
MaxSentence == 300

\* What summarize did.
Returned(v, path) == [raised |-> FALSE, value |-> v, path |-> path]
Raised(path) == [raised |-> TRUE, value |-> <<>>, path |-> path]

Ellipsis == <<".", ".", ".">>

\* A truncation that forgets the slice.
TruncateNoSlice(text, n) == IF Len(text) > n THEN text \o Ellipsis ELSE text

\* text[:max_length] + "..." if len(text) > max_length else text
Truncate(text, n) == IF Len(text) > n THEN Take(text, n) \o Ellipsis ELSE text

\* text.rsplit(' ', 1)[0]: up to the last space, all of it without one.
RSplitSpace(text) ==
    LET n == Len(text)
        last == {i \in 1..n : text[i] = " " /\ \A j \in (i + 1)..n : text[j] # " "}
    IN  IF last = {} THEN text
        ELSE SubSeq(text, 1, (CHOOSE i \in last : TRUE) - 1)

Terminators == {".", "!", "?"}
IsWordChar(c) == ~IsSpace(c) /\ c \notin {"!", ",", "-", ".", ":", "?"}

\* The pieces re.split(r'[.!?]+', text) yields, without the empty ones
\* (which the length test of split_into_sentences drops anyway).
SplitOnTerminators(text) == Runs(text, Terminators)

\* ArticleSummarizer.split_into_sentences
split_into_sentences(text) ==
    LET pieces == SplitOnTerminators(text)
        stripped == AsSeq([i \in 1..Len(pieces) |-> Strip(pieces[i])])
    IN  SelectSeq(stripped, LAMBDA sent : Len(sent) > MinSentence /\ Len(sent) < MaxSentence)

\* str.isdigit()
IsDigits(w) == w # <<>> /\ \A i \in 1..Len(w) : IsDigit(w[i])

\* ArticleSummarizer.tokenize
tokenize(text) ==
    LET spaced == AsSeq([i \in 1..Len(text) |->
                      IF IsWordChar(text[i]) \/ IsSpace(text[i]) THEN text[i] ELSE " "])
        words == Split(Lower(spaced))
    IN  SelectSeq(words, LAMBDA w : Len(w) > 2 /\ ~IsDigits(w))

\* How often w occurs in words.
Occurrences(words, w) == Cardinality({i \in 1..Len(words) : words[i] = w})

RECURSIVE SumOver(_, _)
SumOver(f, n) == IF n = 0 THEN 0 ELSE f[n] + SumOver(f, n - 1)

\* word_freq.get(w, 0) after the stop-word filter and the keyword boost,
\* tokens being the token lists of all sentences.
WordFreq(tokens, w) ==
    LET count == SumOver([i \in 1..Len(tokens) |-> Occurrences(tokens[i], w)], Len(tokens))
    IN  IF w \in stop_words /\ w \notin important_keywords THEN 0
        ELSE IF w \in important_keywords THEN 2 * count
        ELSE count

\* The score of sentence i as the exact fraction num / (100 * den):
\* (base_score + position_bonus + title_bonus + keyword_bonus) * length_penalty
\* with base_score = sum / den.
SentenceScore(tokens, title_words, i) ==
    LET words == tokens[i]
        n == Len(words)
        total == SumOver([k \in 1..n |-> WordFreq(tokens, words[k])], n)
        position_bonus == IF i <= 3 THEN 10 ELSE 5
        title_overlap == Cardinality({words[k] : k \in 1..n} \cap title_words)
        length_penalty == IF n < 5 THEN 5 ELSE IF n > 40 THEN 7 ELSE 10
        keywords == Cardinality({k \in 1..n : words[k] \in important_keywords})
    IN  [num |-> (10 * total + n * (position_bonus + 5 * title_overlap + 3 * keywords))
                    * length_penalty,
         den |-> n]

\* ArticleSummarizer.score_sentences_advanced: the scored sentences, in
\* order; a sentence without tokens gets no entry.
score_sentences_advanced(sentences, title) ==
    LET tokens == AsSeq([i \in 1..Len(sentences) |-> tokenize(sentences[i])])
        title_tokens == tokenize(title)
        title_words == {title_tokens[k] : k \in 1..Len(title_tokens)}
        all == [i \in 1..Len(sentences) |->
                   [sentence |-> sentences[i], index |-> i,
                    score |-> IF tokens[i] = <<>> THEN [num |-> 0, den |-> 1]
                              ELSE SentenceScore(tokens, title_words, i),
                    scored |-> tokens[i] # <<>>]]
    IN  SelectSeq(all, LAMBDA x : x.scored)

\* a's score is below b's.
ScoreLess(a, b) == a.score.num * b.score.den < b.score.num * a.score.den

\* sorted(scored, key=score, reverse=True): descending and stable.
RECURSIVE SortByScore(_)
SortByScore(scored) ==
    IF scored = <<>>
    THEN <<>>
    ELSE LET n == Len(scored)
             x == scored[n]
             rest == SortByScore(SubSeq(scored, 1, n - 1))
             k == Cardinality({i \in 1..Len(rest) : ~ScoreLess(rest[i], x)})
         IN  SubSeq(rest, 1, k) \o <<x>> \o SubSeq(rest, k + 1, Len(rest))

\* sentences.index(sentence)
IndexOf(sentences, sentence) ==
    CHOOSE i \in 1..Len(sentences) :
        sentences[i] = sentence /\ \A j \in 1..(i - 1) : sentences[j] # sentence

\* sorted(top, key=lambda x: sentences.index(x[0])): ascending and stable.
RECURSIVE SortByAppearance(_, _)
SortByAppearance(top, sentences) ==
    IF top = <<>>
    THEN <<>>
    ELSE LET n == Len(top)
             x == top[n]
             rest == SortByAppearance(SubSeq(top, 1, n - 1), sentences)
             k == Cardinality({i \in 1..Len(rest) :
                      IndexOf(sentences, rest[i].sentence) <= IndexOf(sentences, x.sentence)})
         IN  SubSeq(rest, 1, k) \o <<x>> \o SubSeq(rest, k + 1, Len(rest))

\* A cut that keeps the first n characters whatever they end in.
CutAnywhere(text, n) ==
    IF Len(text) > n THEN Take(text, n) \o Ellipsis ELSE text

\* The cut of the scored path.
CutAtSpace(text, n) ==
    IF Len(text) > n THEN RSplitSpace(Take(text, n)) \o Ellipsis ELSE text

\* ArticleSummarizer.summarize(article, max_sentences, max_length).
\* len(None) and re.sub on None raise TypeError.
summarize(a, n_sentences, n_length) ==
    LET title == GetText(a.title)
        description == GetText(a.description)
        content == GetText(a.content)
        full_text == FStr(title) \o <<".", " ">> \o FStr(description)
                        \o <<".", " ">> \o FStr(content)
    IN  IF Len(full_text) < ShortText
        THEN Returned(Truncate(full_text, n_length), "short")
        ELSE LET sentences == split_into_sentences(full_text)
             IN  IF Len(sentences) = 0
                 THEN IF description = NoneText
                      THEN Raised("no_sentence")
                      ELSE Returned(Truncate(description, n_length), "no_sentence")
                 ELSE IF Len(sentences) <= n_sentences
                 THEN Returned(Truncate(Join(sentences), n_length), "few")
                 ELSE IF title = NoneText
                 THEN Raised("scored")
                 ELSE LET scored == score_sentences_advanced(sentences, title)
                          top == SortByAppearance(Take(SortByScore(scored), n_sentences),
                                                  sentences)
                          joined == Join([i \in 1..Len(top) |-> top[i].sentence])
                      IN  Returned(CutAtSpace(joined, n_length), "scored")

\* The articles handed to summarize.
Titles == {TitleShort, TitleLong, NoneText}
Descriptions == {AbsentText, DescSentence, DescRunOn, NoneText}
Pieces == {PieceLead, PieceTie, PieceMin, PieceFragment, PieceNoWords, PieceRunOn}

RECURSIVE Flatten(_)
Flatten(parts) == IF parts = <<>> THEN <<>> ELSE Head(parts) \o Flatten(Tail(parts))

Contents == {Flatten(s) : s \in SeqsUpTo(Pieces, MaxPieces)} \cup {NoneText, AbsentText}

Articles == [title : Titles, description : Descriptions, content : Contents]

\* The max_length values of the calls: none, a few words, a line, the
\* application's 180, and one no summary reaches (a sentence has fewer than
\* MaxSentence characters).
Uncut == (MaxSentences + 1) * MaxSentence
MaxLengths == {0, 12, 60, 180, Uncut}

InitSum ==
    /\ pc = "ready"
    /\ limit = 0
    /\ newsapi_key = None
    /\ calls = <<>>
    /\ accumulated = <<>>
    /\ result = <<>>
    /\ raised = FALSE
    /\ article \in Articles
    /\ max_sentences \in 1..MaxSentences
    /\ max_length \in MaxLengths
    /\ summary = [raised |-> FALSE, value |-> <<>>, path |-> "none"]
    /\ IdleApp

\* summarizer.summarize(article, max_sentences, max_length)
Summarize ==
    /\ pc = "ready"
    /\ summary' = summarize(article, max_sentences, max_length)
    /\ pc' = "summarized"
    /\ UNCHANGED <<limit, newsapi_key, calls, accumulated, result, raised,
                   article, max_sentences, max_length, appvars>>

NextSum == Summarize

SpecSum == InitSum /\ [][NextSum]_vars

\* Articles whose sentences all survive the filter, some of them repeated,
\* handed to summarize with max_sentences up to the default 3 of the code.
InitRank ==
    /\ pc = "ready"
    /\ limit = 0
    /\ newsapi_key = None
    /\ calls = <<>>
    /\ accumulated = <<>>
    /\ result = <<>>
    /\ raised = FALSE
    /\ article \in [title : {TitleShort, TitleLong},
                    description : {AbsentText, DescSentence},
                    content : {Flatten(c) : c \in SeqsUpTo({PieceLead, PieceTie, PieceMin},
                                                         MaxPieces + 1)}]
    /\ max_sentences \in 1..(MaxSentences + 1)
    /\ max_length \in {60, Uncut}
    /\ summary = [raised |-> FALSE, value |-> <<>>, path |-> "none"]
    /\ IdleApp

SpecRank == InitRank /\ [][NextSum]_vars

(***************************************************************************)
(* TutorialLinkManager (tutorial_links.py).                                 *)
(***************************************************************************)

\* TutorialLinkManager.educational_keywords
educational_keywords ==
    { <<"l", "e", "a", "r", "n">>, <<"t", "u", "t", "o", "r", "i", "a", "l">>,
      <<"c", "o", "u", "r", "s", "e">>, <<"e", "d", "u", "c", "a", "t", "i", "o", "n">>,
      <<"s", "t", "u", "d", "y">>, <<"t", "r", "a", "i", "n", "i", "n", "g">>,
      <<"g", "u", "i", "d", "e">>, <<"t", "e", "a", "c", "h", "i", "n", "g">>,
      <<"l", "e", "s", "s", "o", "n">>, <<"u", "n", "i", "v", "e", "r", "s", "i", "t", "y">>,
      <<"c", "o", "l", "l", "e", "g", "e">>, <<"s", "c", "h", "o", "o", "l">>,
      <<"r", "e", "s", "e", "a", "r", "c", "h">>, <<"s", "c", "i", "e", "n", "c", "e">>,
      <<"t", "e", "c", "h", "n", "o", "l", "o", "g", "y">>,
      <<"p", "r", "o", "g", "r", "a", "m", "m", "i", "n", "g">>,
      <<"c", "o", "d", "i", "n", "g">>,
      <<"d", "e", "v", "e", "l", "o", "p", "m", "e", "n", "t">>,
      <<"e", "n", "g", "i", "n", "e", "e", "r", "i", "n", "g">>,
      <<"m", "a", "t", "h", "e", "m", "a", "t", "i", "c", "s">>,
      <<"p", "h", "y", "s", "i", "c", "s">>, <<"c", "h", "e", "m", "i", "s", "t", "r", "y">>,
      <<"b", "i", "o", "l", "o", "g", "y">>, <<"h", "i", "s", "t", "o", "r", "y">>,
      <<"l", "a", "n", "g", "u", "a", "g", "e">>, <<"s", "k", "i", "l", "l">>,
      <<"k", "n", "o", "w", "l", "e", "d", "g", "e">> }

\* The buckets of detect_topic, in the order of its tests.
topic_keywords ==
    << [topic |-> "programming",
        words |-> { <<"p", "y", "t", "h", "o", "n">>, <<"j", "a", "v", "a", "s", "c", "r", "i", "p", "t">>,
                   <<"j", "a", "v", "a">>, <<"c", "o", "d", "e">>,
                   <<"p", "r", "o", "g", "r", "a", "m", "m", "i", "n", "g">> }],
       [topic |-> "science",
        words |-> { <<"p", "h", "y", "s", "i", "c", "s">>, <<"c", "h", "e", "m", "i", "s", "t", "r", "y">>,
                   <<"b", "i", "o", "l", "o", "g", "y">>,
                   <<"s", "c", "i", "e", "n", "c", "e">> }],
       [topic |-> "technology",
        words |-> { <<"a", "i">>,
                   <<"m", "a", "c", "h", "i", "n", "e", " ", "l", "e", "a", "r", "n", "i", "n", "g">>,
                   <<"t", "e", "c", "h", "n", "o", "l", "o", "g", "y">>,
                   <<"c", "o", "m", "p", "u", "t", "e", "r">> }] >>

\* The titles, descriptions and contents of the news cards.
CardTexts ==
    [ \* "Python Tutorial for Beginners"
      tutorial |->
        << "P", "y", "t", "h", "o", "n", " ", "T", "u", "t", "o", "r", "i", "a", "l", " ", "f",
           "o", "r", " ", "B", "e", "g", "i", "n", "n", "e", "r", "s" >>,
      \* "Storm hits the coast"
      storm |->
        << "S", "t", "o", "r", "m", " ", "h", "i", "t", "s", " ", "t", "h", "e", " ", "c", "o",
           "a", "s", "t" >>,
      \* "Physics of computer code"
      physics |->
        << "P", "h", "y", "s", "i", "c", "s", " ", "o", "f", " ", "c", "o", "m", "p", "u", "t",
           "e", "r", " ", "c", "o", "d", "e" >>,
      \* "A free course in coding"
      course |->
        << "A", " ", "f", "r", "e", "e", " ", "c", "o", "u", "r", "s", "e", " ", "i", "n", " ",
           "c", "o", "d", "i", "n", "g" >>,
      \* "Residents were told to leave"
      plain |->
        << "R", "e", "s", "i", "d", "e", "n", "t", "s", " ", "w", "e", "r", "e", " ", "t", "o",
           "l", "d", " ", "t", "o", " ", "l", "e", "a", "v", "e" >>,
      \* "She said the school is closed"
      school |->
        << "S", "h", "e", " ", "s", "a", "i", "d", " ", "t", "h", "e", " ", "s", "c", "h", "o",
           "o", "l", " ", "i", "s", " ", "c", "l", "o", "s", "e", "d" >>,
      \* "Biology lessons with a computer"
      biology |->
        << "B", "i", "o", "l", "o", "g", "y", " ", "l", "e", "s", "s", "o", "n", "s", " ", "w",
           "i", "t", "h", " ", "a", " ", "c", "o", "m", "p", "u", "t", "e", "r" >>,
      \* "Chemistry matters"
      chemistry |->
        << "C", "h", "e", "m", "i", "s", "t", "r", "y", " ", "m", "a", "t", "t", "e", "r", "s" >> ]

\* What a TutorialLinkManager call did.
Verdict(learn, score, topic) ==
    [raised |-> FALSE, learn |-> learn, score |-> score, topic |-> topic]
VerdictRaised == [raised |-> TRUE, learn |-> FALSE, score |-> 0, topic |-> "none"]

\* A score that gives the title no extra weight.
EducationalScoreFlat(title, full_text) ==
    Cardinality({k \in educational_keywords : Contains(full_text, k)})

\* educational_score after the loop over the keywords: 2 for a keyword of
\* full_text that is in the title, 1 for any other keyword of full_text.
EducationalScore(title, full_text) ==
    2 * Cardinality({k \in educational_keywords :
                        Contains(full_text, k) /\ Contains(title, k)})
      + Cardinality({k \in educational_keywords :
                        Contains(full_text, k) /\ ~Contains(title, k)})

\* TutorialLinkManager.should_show_learn_button: None has no lower().
should_show_learn_button(a) ==
    IF NoneText \in {GetText(a.title), GetText(a.description), GetText(a.content)}
    THEN VerdictRaised
    ELSE LET title == Lower(GetText(a.title))
             description == Lower(GetText(a.description))
             content == Lower(GetText(a.content))
             full_text == title \o <<" ">> \o description \o <<" ">> \o content
             educational_score == EducationalScore(title, full_text)
         IN  Verdict(educational_score >= 2, educational_score, "none")

\* any(word in text for word in words)
AnyIn(text, words) == \E w \in words : Contains(text, w)

\* detect_topic with the science test ahead of the programming test.
detect_topic_science_first(title, description) ==
    LET text == Lower(FStr(title) \o <<" ">> \o FStr(description))
    IN  IF AnyIn(text, topic_keywords[2].words) THEN topic_keywords[2].topic
        ELSE IF AnyIn(text, topic_keywords[1].words) THEN topic_keywords[1].topic
        ELSE IF AnyIn(text, topic_keywords[3].words) THEN topic_keywords[3].topic
        ELSE "general"

\* TutorialLinkManager.detect_topic
detect_topic(title, description) ==
    LET text == Lower(FStr(title) \o <<" ">> \o FStr(description))
    IN  IF AnyIn(text, topic_keywords[1].words) THEN topic_keywords[1].topic
        ELSE IF AnyIn(text, topic_keywords[2].words) THEN topic_keywords[2].topic
        ELSE IF AnyIn(text, topic_keywords[3].words) THEN topic_keywords[3].topic
        ELSE "general"

\* The articles of the news cards: the card of an article shows its summary
\* and asks should_show_learn_button; its Learn button asks detect_topic.
CardArticles ==
    [title : {CardTexts.tutorial, CardTexts.storm, CardTexts.physics, TitleShort, NoneText},
     description : {CardTexts.course, CardTexts.plain, CardTexts.school, CardTexts.biology,
                    AbsentText, NoneText},
     content : {<<>>, CardTexts.chemistry, PieceLead \o PieceTie, PieceRunOn,
                AbsentText, NoneText}]

InitCard ==
    /\ pc = "ready"
    /\ limit = 0
    /\ newsapi_key = None
    /\ calls = <<>>
    /\ accumulated = <<>>
    /\ result = <<>>
    /\ raised = FALSE
    /\ article \in CardArticles
    /\ max_sentences \in 1..MaxSentences
    /\ max_length = 180
    /\ summary = [raised |-> FALSE, value |-> <<>>, path |-> "none"]
    /\ IdleApp

\* tutorial_manager.should_show_learn_button(article)
ShowLearnButton ==
    /\ pc = "ready"
    /\ verdict' = should_show_learn_button(article)
    /\ pc' = "classified"
    /\ UNCHANGED <<limit, newsapi_key, calls, accumulated, result, raised, sumvars,
                   cachevars, bookvars, sidevars>>

\* get_tutorial_link: detect_topic(article.get('title', ''),
\* article.get('description', ''))
DetectTopic ==
    /\ pc = "ready"
    /\ verdict' = Verdict(FALSE, 0, detect_topic(GetText(article.title),
                                                 GetText(article.description)))
    /\ pc' = "topic"
    /\ UNCHANGED <<limit, newsapi_key, calls, accumulated, result, raised, sumvars,
                   cachevars, bookvars, sidevars>>

NextCard == Summarize \/ ShowLearnButton \/ DetectTopic

SpecCard == InitCard /\ [][NextCard]_vars

(***************************************************************************)
(* CacheManager (cache_manager.py) and NewsScreen.load_news (main.py).      *)
(***************************************************************************)

MaxClock == 8      \* the clock runs from 0 to MaxClock hours

\* CacheManager.__init__: cache_duration_hours
cache_duration == 6

\* No cache.json, and the cache.json save_cache writes.
NoFile == [exists |-> FALSE, timestamp |-> 0, field |-> "none", articles |-> <<>>]
CacheData(t, field, articles) ==
    [exists |-> TRUE, timestamp |-> t, field |-> field, articles |-> articles]

\* What a CacheManager call returned: None (none, no flag), a list of
\* articles, or a boolean (the flag).
Ret(none, articles, flag) == [none |-> none, articles |-> articles, flag |-> flag]

\* CacheManager.load_cache at time t
load_cache(file, t) ==
    IF ~file.exists THEN Ret(TRUE, <<>>, FALSE)
    ELSE IF t - file.timestamp > cache_duration THEN Ret(TRUE, <<>>, FALSE)
    ELSE Ret(FALSE, file.articles, FALSE)

\* A validity test that expires the cache on the hour.
is_cache_valid_strict(file, t) == file.exists /\ t - file.timestamp < cache_duration

\* CacheManager.is_cache_valid at time t
is_cache_valid(file, t) == file.exists /\ t - file.timestamp <= cache_duration

\* The article lists of the cache and of the fetcher; an article is its name.
ArticleLists == {<<>>, <<"a1">>, <<"a2", "a1">>}

\* Time passes.
Tick ==
    /\ now < MaxClock
    /\ now' = now + 1
    /\ pc' = "tick"
    /\ UNCHANGED <<limit, newsapi_key, calls, accumulated, result, raised, sumvars,
                   verdict, cache_file, saved, cache_ret, screen,
                   bookvars, sidevars>>

\* cache_manager.save_cache(articles, {'field': field}); the write can fail
\* (the exception is caught and False returned), the file then stays as it
\* was.
SaveCache ==
    /\ \E articles \in ArticleLists, ok \in BOOLEAN :
          IF ok
          THEN /\ cache_file' = CacheData(now, "technology", articles)
               /\ saved' = [any |-> TRUE, time |-> now, articles |-> articles]
               /\ cache_ret' = Ret(TRUE, <<>>, TRUE)
          ELSE /\ cache_ret' = Ret(TRUE, <<>>, FALSE)
               /\ UNCHANGED <<cache_file, saved>>
    /\ pc' = "save_cache"
    /\ UNCHANGED <<limit, newsapi_key, calls, accumulated, result, raised, sumvars,
                   verdict, now, screen,
                   bookvars, sidevars>>

\* cache_manager.load_cache()
LoadCache ==
    /\ cache_ret' = load_cache(cache_file, now)
    /\ pc' = "load_cache"
    /\ UNCHANGED <<limit, newsapi_key, calls, accumulated, result, raised, sumvars,
                   verdict, now, cache_file, saved, screen,
                   bookvars, sidevars>>

\* cache_manager.is_cache_valid()
IsCacheValid ==
    /\ cache_ret' = Ret(TRUE, <<>>, is_cache_valid(cache_file, now))
    /\ pc' = "is_cache_valid"
    /\ UNCHANGED <<limit, newsapi_key, calls, accumulated, result, raised, sumvars,
                   verdict, now, cache_file, saved, screen,
                   bookvars, sidevars>>

\* CacheManager.clear_cache: removes the file when there is one; os.remove
\* can fail (the exception is caught and False returned), the file then
\* stays.
clear_cache(file, removed) == IF file.exists /\ ~removed THEN file ELSE NoFile

\* cache_manager.clear_cache(): returns None without a file, True after the
\* removal, False after a failed one.
ClearCache ==
    /\ \E removed \in BOOLEAN :
          /\ cache_file' = clear_cache(cache_file, removed)
          /\ saved' = IF cache_file'.exists THEN saved
                      ELSE [any |-> FALSE, time |-> 0, articles |-> <<>>]
          /\ cache_ret' = Ret(~cache_file'.exists, <<>>, cache_file.exists /\ removed)
    /\ pc' = "clear_cache"
    /\ UNCHANGED <<limit, newsapi_key, calls, accumulated, result, raised, sumvars,
                   verdict, now, screen,
                   bookvars, sidevars>>

\* A load_news that shows any list load_cache returns, the empty one too.
UseCacheIfNotNone(force_refresh, cached) == ~force_refresh /\ ~cached.none

\* load_news: `if not force_refresh:` ... `if cached_articles:`
UseCache(force_refresh, cached) ==
    ~force_refresh /\ ~cached.none /\ cached.articles # <<>>

\* What load_news did: what the screen shows, whether fetch_news was called
\* and what it returned (`failed`: the try block raised).
Screen(view, articles, force_refresh, fetched, got, failed) ==
    [view |-> view, articles |-> articles, force |-> force_refresh,
     fetched |-> fetched, got |-> got, failed |-> failed]

\* NewsScreen.get_user_field(): the field of user_preferences.json,
\* 'technology' without the file.
get_user_field(p) == IF p.exists THEN p.field ELSE "technology"

\* NewsScreen.load_news(force_refresh) at time t with the preferences p, the
\* cache file and the record of the last save: what the screen shows and what
\* has become of the file.  fetch_news returns got or the try block raises
\* (failed); save_cache can fail (~ok) without load_news noticing.
load_news(force_refresh, got, failed, ok, p, file, last, t) ==
    LET cached == load_cache(file, t)
        kept == [file |-> file, last |-> last]
    IN  IF UseCache(force_refresh, cached)
        THEN kept @@ [shown |-> Screen("articles", cached.articles, force_refresh,
                                       FALSE, <<>>, FALSE)]
        ELSE IF failed
        THEN kept @@ [shown |-> Screen("error", <<>>, force_refresh, TRUE, <<>>, TRUE)]
        ELSE IF got = <<>>
        THEN kept @@ [shown |-> Screen("error", <<>>, force_refresh, TRUE, got, FALSE)]
        ELSE [shown |-> Screen("articles", got, force_refresh, TRUE, got, FALSE),
              file |-> IF ok THEN CacheData(t, get_user_field(p), got) ELSE file,
              last |-> IF ok THEN [any |-> TRUE, time |-> t, articles |-> got] ELSE last]

\* news_screen.load_news(force_refresh): the scheduled first load and the
\* Refresh button call it without force_refresh.
LoadNews ==
    /\ \E force_refresh \in BOOLEAN, got \in ArticleLists, failed \in BOOLEAN,
          ok \in BOOLEAN :
          LET done == load_news(force_refresh, got, failed, ok, prefs, cache_file, saved, now)
          IN  /\ screen' = done.shown
              /\ cache_file' = done.file
              /\ saved' = done.last
    /\ pc' = "load_news"
    /\ UNCHANGED <<limit, newsapi_key, calls, accumulated, result, raised, sumvars,
                   verdict, now, cache_ret,
                   bookvars, sidevars>>

InitCache ==
    /\ pc = "start"
    /\ limit = 0
    /\ newsapi_key = None
    /\ calls = <<>>
    /\ accumulated = <<>>
    /\ result = <<>>
    /\ raised = FALSE
    /\ article = [title |-> <<>>, description |-> <<>>, content |-> <<>>]
    /\ max_sentences = 3
    /\ max_length = 250
    /\ summary = [raised |-> FALSE, value |-> <<>>, path |-> "none"]
    /\ IdleApp

NextCache == Tick \/ SaveCache \/ LoadCache \/ IsCacheValid \/ ClearCache \/ LoadNews

SpecCache == InitCache /\ [][NextCache]_vars

\* What is typed into the field input, stripped: nothing, or a field.
UserInputs == {"", "technology", "Space & Astronomy"}

\* FieldSelectionScreen.save_and_continue(instance): nothing happens without
\* an input; else the preferences are written, the cache is cleared and the
\* news screen loads with force_refresh=True.
SaveAndContinue ==
    /\ \E user_input \in UserInputs, removed \in BOOLEAN, got \in ArticleLists,
          failed \in BOOLEAN, ok \in BOOLEAN :
          IF user_input = ""
          THEN UNCHANGED <<prefs, screen, cache_file, saved>>
          ELSE LET cleared == clear_cache(cache_file, removed)
                   done == load_news(TRUE, got, failed, ok,
                                     [exists |-> TRUE, field |-> user_input], cleared,
                                     IF cleared.exists THEN saved
                                     ELSE [any |-> FALSE, time |-> 0, articles |-> <<>>],
                                     now)
               IN  /\ prefs' = [exists |-> TRUE, field |-> user_input]
                   /\ screen' = done.shown
                   /\ cache_file' = done.file
                   /\ saved' = done.last
    /\ pc' = "save_and_continue"
    /\ UNCHANGED <<limit, newsapi_key, calls, accumulated, result, raised, sumvars,
                   verdict, now, cache_ret, bookvars, notifier, shelf, filtered>>

\* SettingsScreen.clear_cache(instance): clear_cache(), then load_news().
SettingsClearCache ==
    /\ \E removed \in BOOLEAN, got \in ArticleLists, failed \in BOOLEAN, ok \in BOOLEAN :
          LET cleared == clear_cache(cache_file, removed)
              done == load_news(FALSE, got, failed, ok, prefs, cleared,
                                IF cleared.exists THEN saved
                                ELSE [any |-> FALSE, time |-> 0, articles |-> <<>>],
                                now)
          IN  /\ screen' = done.shown
              /\ cache_file' = done.file
              /\ saved' = done.last
    /\ pc' = "settings_clear_cache"
    /\ UNCHANGED <<limit, newsapi_key, calls, accumulated, result, raised, sumvars,
                   verdict, now, cache_ret, bookvars, sidevars>>

NextPrefs == Tick \/ LoadNews \/ SaveAndContinue \/ SettingsClearCache

SpecPrefs == InitCache /\ [][NextPrefs]_vars

(***************************************************************************)
(* BookmarkManager (bookmarking.py).                                        *)
(***************************************************************************)

MaxBookmarks == 3  \* add_bookmark is called while fewer bookmarks are stored

\* The articles handed to add_bookmark: every adapter sets the url key,
\* NewsAPI possibly to None.  Two articles share the url "u1".
BookArticles ==
    {[url |-> "u1", title |-> "A"], [url |-> "u1", title |-> "B"],
     [url |-> "u2", title |-> "C"], [url |-> "", title |-> "D"],
     [url |-> None, title |-> "E"]}

\* any(b.get('url') == url for b in self.bookmarks)
is_bookmarked(list, url) == \E i \in 1..Len(list) : list[i].url = url

\* An add_bookmark without the duplicate test.
add_bookmark_unchecked(list, a, t) ==
    [value |-> TRUE,
     list |-> <<[url |-> a.url, title |-> a.title, saved_at |-> t]>> \o list]

\* An add_bookmark that puts the new bookmark last.
add_bookmark_append(list, a, t) ==
    IF \E i \in 1..Len(list) : list[i].url = a.url
    THEN [value |-> FALSE, list |-> list]
    ELSE [value |-> TRUE,
          list |-> list \o <<[url |-> a.url, title |-> a.title, saved_at |-> t]>>]

\* BookmarkManager.add_bookmark at time t: the value returned and the new
\* list.  Of the fields of a bookmark the model keeps url, title, saved_at.
add_bookmark(list, a, t) ==
    IF \E i \in 1..Len(list) : list[i].url = a.url
    THEN [value |-> FALSE, list |-> list]
    ELSE [value |-> TRUE,
          list |-> <<[url |-> a.url, title |-> a.title, saved_at |-> t]>> \o list]

\* bookmark_manager.add_bookmark(article); save_bookmarks catches a failed
\* write, the file then stays as it was.
AddBookmark ==
    /\ Len(bookmarks) < MaxBookmarks
    /\ \E a \in BookArticles, ok \in BOOLEAN :
          LET added == add_bookmark(bookmarks, a, now)
          IN  /\ bookmarks' = added.list
              /\ book_ret' = [url |-> a.url, value |-> added.value]
              /\ bookmarks_file' = IF added.value /\ ok THEN added.list ELSE bookmarks_file
    /\ pc' = "add_bookmark"
    /\ UNCHANGED <<limit, newsapi_key, calls, accumulated, result, raised, sumvars,
                   verdict, cachevars, sidevars>>

\* bookmark_manager.remove_bookmark(url)
RemoveBookmark ==
    /\ \E a \in BookArticles, ok \in BOOLEAN :
          LET kept == SelectSeq(bookmarks, LAMBDA b : b.url # a.url)
          IN  /\ bookmarks' = kept
              /\ book_ret' = [url |-> a.url, value |-> FALSE]
              /\ bookmarks_file' = IF ok THEN kept ELSE bookmarks_file
    /\ pc' = "remove_bookmark"
    /\ UNCHANGED <<limit, newsapi_key, calls, accumulated, result, raised, sumvars,
                   verdict, cachevars, sidevars>>

\* bookmark_manager.clear_all_bookmarks()
ClearAllBookmarks ==
    /\ bookmarks' = <<>>
    /\ book_ret' = [url |-> "", value |-> FALSE]
    /\ \E ok \in BOOLEAN : bookmarks_file' = IF ok THEN <<>> ELSE bookmarks_file
    /\ pc' = "clear_all_bookmarks"
    /\ UNCHANGED <<limit, newsapi_key, calls, accumulated, result, raised, sumvars,
                   verdict, cachevars, sidevars>>

\* bookmark_manager.is_bookmarked(url)
IsBookmarked ==
    /\ \E a \in BookArticles :
          book_ret' = [url |-> a.url, value |-> is_bookmarked(bookmarks, a.url)]
    /\ pc' = "is_bookmarked"
    /\ UNCHANGED <<limit, newsapi_key, calls, accumulated, result, raised, sumvars,
                   verdict, cachevars, bookmarks, bookmarks_file, sidevars>>

NextBook == AddBookmark \/ RemoveBookmark \/ ClearAllBookmarks \/ IsBookmarked

\* One BookmarkManager, created when there is no bookmarks.json.
SpecBook == InitCache /\ [][NextBook]_vars

\* The calls whose write of bookmarks.json succeeds (the list in memory
\* never depends on the file after the manager is created).
AddSaved == AddBookmark /\ bookmarks_file' = bookmarks'

RemoveSaved == RemoveBookmark /\ bookmarks_file' = bookmarks'

\* The manager's list as get_bookmarks returns it, adds and removals
\* happening as time passes.
NextShelf == Tick \/ AddSaved \/ RemoveSaved

SpecShelf == InitCache /\ [][NextShelf]_vars

(***************************************************************************)
(* The two screens with bookmarks (main.py).  NewsScreen and BookmarksScreen *)
(* each create a BookmarkManager when the app is built: bookmarks is the    *)
(* list of the news screen's manager, shelf.bookmarks that of the bookmarks *)
(* screen's manager, shelf.listed the bookmarks the bookmarks screen shows. *)
(***************************************************************************)

\* EdupulseApp.build(): both screens are constructed and each manager loads
\* bookmarks.json, which is missing or left by an earlier run.
BuildScreens ==
    /\ pc = "start"
    /\ \E stored \in {<<>>, <<[url |-> "u2", title |-> "C", saved_at |-> 0]>>} :
          /\ bookmarks_file' = stored
          /\ bookmarks' = stored
          /\ shelf' = [bookmarks |-> stored, listed |-> <<>>]
    /\ pc' = "build"
    /\ UNCHANGED <<limit, newsapi_key, calls, accumulated, result, raised, sumvars,
                   verdict, cachevars, book_ret, notifier, prefs, filtered>>

\* NewsScreen.toggle_bookmark(article, button)
ToggleBookmark ==
    /\ pc # "start"
    /\ \E a \in BookArticles, ok \in BOOLEAN :
          IF is_bookmarked(bookmarks, a.url)
          THEN LET kept == SelectSeq(bookmarks, LAMBDA b : b.url # a.url)
               IN  /\ bookmarks' = kept
                   /\ book_ret' = [url |-> a.url, value |-> FALSE]
                   /\ bookmarks_file' = IF ok THEN kept ELSE bookmarks_file
          ELSE LET added == add_bookmark(bookmarks, a, now)
               IN  /\ Len(bookmarks) < MaxBookmarks
                   /\ bookmarks' = added.list
                   /\ book_ret' = [url |-> a.url, value |-> added.value]
                   /\ bookmarks_file' = IF added.value /\ ok THEN added.list
                                        ELSE bookmarks_file
    /\ pc' = "toggle_bookmark"
    /\ UNCHANGED <<limit, newsapi_key, calls, accumulated, result, raised, sumvars,
                   verdict, cachevars, sidevars>>

\* BookmarksScreen.on_enter(): load_bookmarks shows get_bookmarks() of the
\* screen's own manager.
OnEnter ==
    /\ pc # "start"
    /\ shelf' = [shelf EXCEPT !.listed = shelf.bookmarks]
    /\ pc' = "on_enter"
    /\ UNCHANGED <<limit, newsapi_key, calls, accumulated, result, raised, sumvars,
                   verdict, cachevars, bookvars, notifier, prefs, filtered>>

\* BookmarksScreen.delete_bookmark(bookmark), from the Delete button of a
\* bookmark shown.
DeleteBookmark ==
    /\ \E i \in 1..Len(shelf.listed), ok \in BOOLEAN :
          LET kept == SelectSeq(shelf.bookmarks, LAMBDA b : b.url # shelf.listed[i].url)
          IN  /\ shelf' = [bookmarks |-> kept, listed |-> kept]
              /\ book_ret' = [url |-> shelf.listed[i].url, value |-> FALSE]
              /\ bookmarks_file' = IF ok THEN kept ELSE bookmarks_file
    /\ pc' = "delete_bookmark"
    /\ UNCHANGED <<limit, newsapi_key, calls, accumulated, result, raised, sumvars,
                   verdict, cachevars, bookmarks, notifier, prefs, filtered>>

NextScreens == BuildScreens \/ ToggleBookmark \/ OnEnter \/ DeleteBookmark

SpecScreens == InitCache /\ [][NextScreens]_vars

(***************************************************************************)
(* NotificationManager (notifications.py).                                  *)
(*                                                                          *)
(* The clock counts fractions of a minute since midnight, Minute to the     *)
(* minute.  strftime("%H:%M") is the minute of the day; the zero-padded     *)
(* strings "HH:MM" compare as these numbers do.                             *)
(***************************************************************************)

MaxDays == 2  \* the run ends when this many calendar days have passed

Minute == 3  \* clock units in a minute: time.sleep(60) sleeps Minute units

\* morning_time, evening_time and the "00:00" of the reset, in minutes; the
\* length of a day, what a turn of the loop can take beyond its sleep and
\* the times of day at which the application can start (00:00:00, 06:59:40,
\* 12:00:00, 23:59:20), in clock units.
Times ==
    [morning_time |-> 7 * 60, evening_time |-> 21 * 60, midnight |-> 0,
     day |-> 24 * 60 * Minute, drifts |-> {0, 1},
     starts |-> {0, 419 * Minute + 2, 720 * Minute, 1439 * Minute + 1}]

\* The scheduler thread from a stage of its loop up to its next access to
\* notifications_enabled or its sleep: the loop condition and the reading
\* of the clock ("while"), the morning check, the evening check, the reset
\* of the flags at "00:00".
RECURSIVE Turn(_, _)
Turn(n, stage) ==
    CASE stage = "while" ->
           IF n.enabled
           THEN Turn([n EXCEPT !.current_time = n.clock \div Minute], "morning")
           ELSE [n EXCEPT !.thread = "dead", !.alive = @ - 1]
      [] stage = "morning" ->
           IF n.current_time >= Times.morning_time /\ ~n.morning_sent_today
           THEN [n EXCEPT !.thread = "send_morning"]
           ELSE Turn(n, "evening")
      [] stage = "evening" ->
           IF n.current_time >= Times.evening_time /\ ~n.evening_sent_today
           THEN [n EXCEPT !.thread = "send_evening"]
           ELSE Turn(n, "reset")
      [] OTHER ->
           IF n.current_time = Times.midnight
           THEN [n EXCEPT !.morning_sent_today = FALSE, !.evening_sent_today = FALSE,
                          !.thread = "sleep"]
           ELSE [n EXCEPT !.thread = "sleep"]

\* schedule_notifications(): a thread is started unless one is alive.  The
\* first call, in EduPulseApp.build, comes at some time of the day.
ScheduleNotifications ==
    /\ \E t \in IF notifier.thread = "none" THEN Times.starts ELSE {notifier.clock} :
          notifier' = IF notifier.thread \in {"none", "dead"}
                      THEN [notifier EXCEPT !.thread = "started", !.alive = @ + 1,
                                            !.clock = t,
                                            !.morning_sent_today = FALSE,
                                            !.evening_sent_today = FALSE]
                      ELSE notifier
    /\ pc' = "schedule_notifications"
    /\ UNCHANGED <<limit, newsapi_key, calls, accumulated, result, raised, sumvars,
                   verdict, cachevars, bookvars, shelf, prefs, filtered>>

\* The thread reaches its loop condition: when started, or when
\* time.sleep(60) ends, a drift later.  A new calendar day starts with no
\* reminder delivered on it.
SchedulerTurn ==
    /\ notifier.thread \in {"started", "sleep"}
    /\ \E d \in Times.drifts :
          LET t == IF notifier.thread = "started" THEN notifier.clock
                   ELSE notifier.clock + Minute + d
          IN  IF t < Times.day
              THEN notifier' = Turn([notifier EXCEPT !.clock = t], "while")
              ELSE /\ notifier.day + 1 < MaxDays
                   /\ notifier' = Turn([notifier EXCEPT
                                          !.clock = t - Times.day, !.day = @ + 1,
                                          !.mornings = 0, !.evenings = 0], "while")
    /\ pc' = "scheduler"
    /\ UNCHANGED <<limit, newsapi_key, calls, accumulated, result, raised, sumvars,
                   verdict, cachevars, bookvars, shelf, prefs, filtered>>

\* send_notification tests notifications_enabled; disabled, it returns and
\* the loop sets its flag all the same.
SendNotification ==
    /\ notifier.thread \in {"send_morning", "send_evening"}
    /\ notifier' =
          IF notifier.enabled
          THEN [notifier EXCEPT !.thread = IF @ = "send_morning" THEN "notify_morning"
                                                                ELSE "notify_evening"]
          ELSE IF notifier.thread = "send_morning"
          THEN Turn([notifier EXCEPT !.morning_sent_today = TRUE], "evening")
          ELSE Turn([notifier EXCEPT !.evening_sent_today = TRUE], "reset")
    /\ pc' = "send_notification"
    /\ UNCHANGED <<limit, newsapi_key, calls, accumulated, result, raised, sumvars,
                   verdict, cachevars, bookvars, shelf, prefs, filtered>>

\* notification.notify (or the fallback print) delivers the reminder.
Notify ==
    /\ notifier.thread \in {"notify_morning", "notify_evening"}
    /\ notifier' =
          IF notifier.thread = "notify_morning"
          THEN Turn([notifier EXCEPT !.morning_sent_today = TRUE, !.mornings = @ + 1],
                    "evening")
          ELSE Turn([notifier EXCEPT !.evening_sent_today = TRUE, !.evenings = @ + 1],
                    "reset")
    /\ pc' = "notify"
    /\ UNCHANGED <<limit, newsapi_key, calls, accumulated, result, raised, sumvars,
                   verdict, cachevars, bookvars, shelf, prefs, filtered>>

\* stop_notifications()
StopNotifications ==
    /\ notifier' = [notifier EXCEPT !.enabled = FALSE]
    /\ pc' = "stop_notifications"
    /\ UNCHANGED <<limit, newsapi_key, calls, accumulated, result, raised, sumvars,
                   verdict, cachevars, bookvars, shelf, prefs, filtered>>

\* The scheduler while nobody stops the notifications.
NextDaily == ScheduleNotifications \/ SchedulerTurn \/ SendNotification \/ Notify

SpecDaily == InitCache /\ [][NextDaily]_vars

\* The scheduler and the application, which stops the notifications at any
\* moment (EduPulseApp.on_stop).
NextStop == NextDaily \/ StopNotifications

SpecStop == InitCache /\ [][NextStop]_vars

(***************************************************************************)
(* The aggregators' properties.                                             *)
(***************************************************************************)

\* The index of the first article of `articles` whose title is t.
FirstWithTitle(articles, t) ==
    CHOOSE k \in 1..Len(articles) :
        articles[k].title = t /\ \A m \in 1..(k - 1) : articles[m].title # t

\* C1: NewsSourceFetcher.fetch_news returns no two articles of the same
\* title; the article it keeps for a title is the first one of that title in
\* accumulation order (Guardian before NewsAPI), whatever the url of the later
\* ones; and the kept articles come in their first-seen order.
C1_DedupFirstSeen ==
    pc = "news" =>
        /\ \A i, j \in 1..Len(result) : i # j => result[i].title # result[j].title
        /\ \A i \in 1..Len(result) :
              /\ \E k \in 1..Len(accumulated) : accumulated[k].title = result[i].title
              /\ result[i] = accumulated[FirstWithTitle(accumulated, result[i].title)]
        /\ \A i, j \in 1..Len(result) :
              i < j => FirstWithTitle(accumulated, result[i].title)
                         < FirstWithTitle(accumulated, result[j].title)

\* A Guardian and a NewsAPI article of one title and different urls were
\* accumulated, and the Guardian one was returned along with another title.
C1_Witness ==
    /\ pc = "news"
    /\ Len(result) = 2
    /\ \E i, j \in 1..Len(accumulated) :
          /\ i < j
          /\ accumulated[i].title = accumulated[j].title
          /\ accumulated[i].url # accumulated[j].url
          /\ accumulated[i].source = "The Guardian"
          /\ accumulated[j].source = "newsapi"
          /\ result[1] = accumulated[i]

\* C2: RSSNewsFetcher.fetch_news returns no two articles of the same title.
C2_RssNoDuplicateTitle ==
    pc = "rss" =>
        \A i, j \in 1..Len(result) : i # j => result[i].title # result[j].title

\* C3: both aggregators return at most `limit` articles, for every
\* limit >= 0.
C3_AtMostLimit ==
    pc \in {"news", "rss"} => Len(result) <= limit

\* More than `limit` articles were accumulated and `limit` >= 1 of them
\* returned.
C3_Witness ==
    /\ pc = "rss"
    /\ limit >= 1
    /\ Len(accumulated) > limit
    /\ Len(result) = limit

\* How many articles of `articles` have the sort key v.
CountKey(articles, v) ==
    Cardinality({i \in 1..Len(articles) : SortKey(articles[i]) = v})

\* The sort keys of the accumulated articles left out of the result.
CutOffKeys ==
    {v \in {SortKey(accumulated[i]) : i \in 1..Len(accumulated)} :
        CountKey(accumulated, v) > CountKey(result, v)}

\* C4: the list RSSNewsFetcher.fetch_news returns is in descending string
\* order of published_date, and no returned article has a published_date
\* below that of an accumulated article the limit cut off.
C4_SortedBeforeTruncation ==
    pc = "rss" =>
        /\ \A i, j \in 1..Len(result) :
              i < j => ~StrLess(SortKey(result[i]), SortKey(result[j]))
        /\ \A i \in 1..Len(result) : \A v \in CutOffKeys :
              ~StrLess(SortKey(result[i]), v)
        /\ \A i \in 1..Len(result) :
              CountKey(result, SortKey(result[i])) <= CountKey(accumulated, SortKey(result[i]))

\* An older article was accumulated before a newer one, both were returned
\* and something was cut off.
C4_Witness ==
    /\ pc = "rss"
    /\ Len(result) >= 2
    /\ StrLess(SortKey(result[2]), SortKey(result[1]))
    /\ StrLess(SortKey(accumulated[1]), SortKey(accumulated[2]))
    /\ CutOffKeys # {}

\* The articles the logged calls returned, concatenated in call order.
RECURSIVE Contributions(_)
Contributions(log) ==
    IF log = <<>> THEN <<>>
    ELSE (IF Head(log).raised THEN <<>> ELSE Head(log).returned) \o Contributions(Tail(log))

\* The number of adapters of the aggregator that ran.
NumAdapters == IF pc = "news" THEN Len(Sources) ELSE Len(rss_feeds)

\* An adapter call that failed: it raised, or every feed it tried did.
CallFailed(call) ==
    \/ call.raised
    \/ /\ call.tried # <<>>
       /\ \A j \in 1..Len(call.tried) : call.tried[j].kind = "error"

\* C5 as claimed: an aggregation call never raises to its caller; an adapter
\* that fails contributes no article and the next adapter in order is still
\* tried; when every adapter fails or returns nothing the result is the empty
\* list.
C5_NextAdapterAlwaysTried ==
    pc \in {"news", "rss"} =>
        /\ ~raised
        /\ accumulated = Contributions(calls)
        /\ \A i \in 1..Len(calls) :
              CallFailed(calls[i]) =>
                  /\ calls[i].returned = <<>>
                  /\ i < NumAdapters => Len(calls) > i
        /\ (\A i \in 1..Len(calls) : calls[i].returned = <<>>) => result = <<>>

\* C5, amended: an aggregation call never raises to its caller; an adapter
\* that fails contributes no article and the next adapter in order is still
\* tried, except that RSSNewsFetcher.fetch_news with max_results = 0 stops
\* after its first outlet whatever that outlet did; inside an outlet a feed
\* that fails is followed by the outlet's next feed; when every adapter fails
\* or returns nothing the result is the empty list.
C5_AggregationNeverRaises ==
    pc \in {"news", "rss"} =>
        /\ ~raised
        /\ accumulated = Contributions(calls)
        /\ \A i \in 1..Len(calls) :
              CallFailed(calls[i]) =>
                  /\ calls[i].returned = <<>>
                  /\ (i < NumAdapters /\ (pc = "news" \/ limit >= 1)) => Len(calls) > i
        /\ (pc = "rss" /\ limit = 0) => Len(calls) = 1
        /\ pc = "rss" =>
              \A i \in 1..Len(calls) : \A j \in 1..Len(calls[i].tried) :
                  (calls[i].tried[j].kind = "error" /\ j < Len(rss_feeds[i].feeds))
                      => Len(calls[i].tried) > j
        /\ (\A i \in 1..Len(calls) : calls[i].returned = <<>>) => result = <<>>

\* The Guardian request timed out, NewsAPI was tried all the same and its
\* articles were returned.
C5_Witness ==
    /\ pc = "news"
    /\ Len(calls) = 2
    /\ calls[1].raised
    /\ calls[1].kind = "timeout"
    /\ ~calls[2].raised
    /\ result # <<>>
    /\ ~raised

\* C6 as claimed: no adapter call raises; every failure is caught inside the
\* adapter, which returns the empty list.
C6_AdaptersNeverRaise ==
    pc \in {"news", "rss"} =>
        \A i \in 1..Len(calls) : ~calls[i].raised

\* C6, amended: fetch_from_source never raises, a feed error being caught
\* inside it.  The Guardian and NewsAPI adapters catch nothing: they raise
\* exactly when their request fails (network failure, HTTP error status,
\* malformed body), and it is fetch_news that catches the exception, takes no
\* article from that adapter and does not raise to its caller.
C6_AdapterErrorsCaughtByAggregator ==
    /\ pc = "rss" => \A i \in 1..Len(calls) : ~calls[i].raised
    /\ pc = "news" =>
          /\ \A i \in 1..Len(calls) :
                /\ calls[i].raised <=> (calls[i].http /\ calls[i].kind # "ok")
                /\ calls[i].raised => calls[i].returned = <<>>
          /\ accumulated = Contributions(calls)
          /\ ~raised

\* The Guardian adapter raised on an HTTP error status and fetch_news
\* returned normally.
C6_Witness ==
    /\ pc = "news"
    /\ calls[1].name = "guardian"
    /\ calls[1].raised
    /\ calls[1].kind = "status"
    /\ ~raised

\* C7: fetch_from_source returns at most max_results articles, for any
\* number of feeds of the outlet and of matching entries per feed.
C7_AdapterAtMostLimit ==
    pc = "rss" =>
        \A i \in 1..Len(calls) : Len(calls[i].returned) <= limit

\* C8: with no NewsAPI credential (NEWS_API_KEY unset or empty) the NewsAPI
\* adapter returns the empty list, issues no HTTP request and does not raise.
C8_NoKeyNoRequest ==
    pc = "news" =>
        \A i \in 1..Len(calls) :
            (calls[i].name = "newsapi" /\ ~Truthy(newsapi_key)) =>
                /\ calls[i].returned = <<>>
                /\ ~calls[i].http
                /\ ~calls[i].raised

\* The NewsAPI adapter was invoked with an empty credential.
C8_Witness ==
    /\ pc = "news"
    /\ newsapi_key = ""
    /\ \E i \in 1..Len(calls) : calls[i].name = "newsapi"

\* The adapters were invoked in the order of `sources`, each at most once,
\* the first always.
InvokedInOrder ==
    /\ Len(calls) >= 1
    /\ Len(calls) <= Len(Sources)
    /\ \A i \in 1..Len(calls) : calls[i].name = Sources[i]

\* The number of articles accumulated from the Guardian adapter.
FromGuardian == IF calls[1].raised THEN 0 ELSE Len(calls[1].returned)

\* C9 as claimed: Guardian then NewsAPI, each at most once, and NewsAPI is
\* invoked if and only if fewer than `limit` articles were accumulated from
\* Guardian.
C9_FallbackIffBelowLimit ==
    pc = "news" =>
        /\ InvokedInOrder
        /\ Len(calls) = 2 <=> FromGuardian < limit

\* C9, amended: Guardian then NewsAPI, each at most once, and NewsAPI is
\* invoked if and only if Guardian failed or returned nothing, or fewer than
\* `limit` articles were accumulated from it; for a limit >= 1 that is if and
\* only if fewer than `limit` articles were accumulated from Guardian.
C9_FallbackIffEmptyOrBelowLimit ==
    pc = "news" =>
        /\ InvokedInOrder
        /\ Len(calls) = 2 <=> (FromGuardian = 0 \/ FromGuardian < limit)
        /\ limit >= 1 => (Len(calls) = 2 <=> FromGuardian < limit)

\* Guardian delivered articles, fewer than the limit, and NewsAPI was
\* invoked after it.
C9_Witness ==
    /\ pc = "news"
    /\ Len(calls) = 2
    /\ FromGuardian >= 1
    /\ FromGuardian < limit

\* C29: when fetch_news returns fewer than max_articles articles, every
\* adapter (Guardian and NewsAPI) was invoked during the call.
C29_ShortListTriedEverySource ==
    (pc = "news" /\ Len(result) < limit) => Len(calls) = Len(Sources)

(***************************************************************************)
(* The summarizer's properties.                                             *)
(***************************************************************************)

\* C10: on every return path (short blob, no sentence, few sentences,
\* scored) summarize returns a string of at most max_length + 3 characters,
\* for every max_sentences >= 1 and max_length >= 0.
C10_SummaryLengthBound ==
    (pc = "summarized" /\ ~summary.raised) =>
        /\ summary.path \in {"short", "no_sentence", "few", "scored"}
        /\ Len(summary.value) <= max_length + 3

\* The scored path cut a summary that was too long and appended the marker.
C10_Witness ==
    /\ pc = "summarized"
    /\ ~summary.raised
    /\ summary.path = "scored"
    /\ max_length > 0
    /\ Len(summary.value) > max_length
    /\ SubSeq(summary.value, Len(summary.value) - 2, Len(summary.value)) = Ellipsis

\* The blob of an article: f"{title}. {description}. {content}", a missing
\* field being empty and None printing as "None".
Blob(a) ==
    FStr(GetText(a.title)) \o <<".", " ">> \o FStr(GetText(a.description))
        \o <<".", " ">> \o FStr(GetText(a.content))

\* C11: when the blob has fewer than 100 characters summarize returns that
\* blob if its length is at most max_length, and otherwise its first
\* max_length characters followed by "..."; the result is a function of the
\* blob and max_length alone, whatever max_sentences is and whatever sentences
\* the blob holds.
C11_ShortBlobReturned ==
    (pc = "summarized" /\ Len(Blob(article)) < 100) =>
        /\ ~summary.raised
        /\ summary.value =
              IF Len(Blob(article)) <= max_length
              THEN Blob(article)
              ELSE SubSeq(Blob(article), 1, max_length) \o Ellipsis

\* A blob under 100 characters that holds more surviving sentences than
\* max_sentences was cut to max_length characters and the marker.
C11_Witness ==
    /\ pc = "summarized"
    /\ Len(Blob(article)) < 100
    /\ Len(split_into_sentences(Blob(article))) > max_sentences
    /\ max_length = 12
    /\ summary.value = SubSeq(Blob(article), 1, 12) \o Ellipsis

\* The sentences of an article's blob that survive the length filter: the
\* stripped pieces between runs of ".", "!" and "?" that have 21 to 299
\* characters, in order.
Surviving(a) ==
    LET pieces == SplitOnTerminators(Blob(a))
        stripped == AsSeq([i \in 1..Len(pieces) |-> Strip(pieces[i])])
    IN  SelectSeq(stripped, LAMBDA sent : Len(sent) >= 21 /\ Len(sent) <= 299)

\* text cut to n characters and the marker when it is longer than n.
CutTo(text, n) == IF Len(text) <= n THEN text ELSE SubSeq(text, 1, n) \o Ellipsis

\* C12 as claimed: when the blob has at least 100 characters and at most
\* max_sentences sentences survive the filter (0 included), summarize returns
\* the surviving sentences in order, joined by single spaces and truncated to
\* max_length.
C12_FewSentencesJoined ==
    (pc = "summarized" /\ Len(Blob(article)) >= 100
        /\ Len(Surviving(article)) <= max_sentences) =>
        /\ ~summary.raised
        /\ summary.value = CutTo(Join(Surviving(article)), max_length)

\* C12, amended: when the blob has at least 100 characters and between 1 and
\* max_sentences sentences survive the filter, summarize returns them in
\* order, joined by single spaces and truncated to max_length; when none
\* survives it returns the article's description truncated to max_length (a
\* missing description being empty), and raises when the description is None.
C12_FewJoinedElseDescription ==
    (pc = "summarized" /\ Len(Blob(article)) >= 100
        /\ Len(Surviving(article)) <= max_sentences) =>
        IF Len(Surviving(article)) >= 1
        THEN /\ ~summary.raised
             /\ summary.value = CutTo(Join(Surviving(article)), max_length)
        ELSE IF article.description = NoneText
        THEN summary.raised
        ELSE /\ ~summary.raised
             /\ summary.value = CutTo(GetText(article.description), max_length)

\* Two sentences survived, a 20-character fragment of the content did not,
\* and the two were returned joined and cut.
C12_Witness ==
    /\ pc = "summarized"
    /\ Len(Blob(article)) >= 100
    /\ max_sentences = 2
    /\ Len(Surviving(article)) = 2
    /\ \E i \in 1..(Len(article.content) - Len(PieceFragment) + 1) :
          SubSeq(article.content, i, i + Len(PieceFragment) - 1) = PieceFragment
    /\ max_length = 60
    /\ summary.value = SubSeq(Join(Surviving(article)), 1, 60) \o Ellipsis

\* C13: whenever more than max_sentences sentences survive the filter, the
\* summary summarize produces when max_length cuts nothing consists of exactly
\* max_sentences surviving sentences of the blob, joined by single spaces.
C13_ExactlyMaxSentences ==
    (pc = "summarized" /\ Len(Blob(article)) >= 100 /\ max_length = Uncut
        /\ Len(Surviving(article)) > max_sentences) =>
        /\ ~summary.raised
        /\ \E f \in [1..max_sentences -> 1..Len(Surviving(article))] :
              summary.value = Join([i \in 1..max_sentences |-> Surviving(article)[f[i]]])

\* The surviving sentences the scored path selects according to the claim:
\* the indices of the max_sentences best scored sentences, where a sentence
\* is better than another when its score is higher, or equal and it comes
\* earlier.
TopRanked(a, n) ==
    LET scored == score_sentences_advanced(Surviving(a), GetText(a.title))
        Better(x, y) == ScoreLess(y, x) \/ (~ScoreLess(x, y) /\ x.index < y.index)
    IN  {scored[k].index : k \in {k \in 1..Len(scored) :
            Cardinality({j \in 1..Len(scored) : Better(scored[j], scored[k])}) < n}}

\* C14: on the scored path the sentences summarize selects are the
\* max_sentences highest-scoring ones, a tie in score going to the sentence
\* that appears earlier, and the summary (when max_length cuts nothing) holds
\* them in their order of appearance in the text.
C14_TopScoringInTextOrder ==
    (pc = "summarized" /\ summary.path = "scored" /\ ~summary.raised
        /\ max_length = Uncut) =>
        LET sentences == Surviving(article)
            top == TopRanked(article, max_sentences)
            picked == SelectSeq([i \in 1..Len(sentences) |-> i], LAMBDA i : i \in top)
        IN  summary.value = Join([k \in 1..Len(picked) |-> sentences[picked[k]]])

\* The sentences the scored path selected, joined by single spaces.
JoinedSelection(a, n) ==
    LET sentences == split_into_sentences(Blob(a))
        top == SortByAppearance(
                   Take(SortByScore(score_sentences_advanced(sentences, GetText(a.title))), n),
                   sentences)
    IN  Join([i \in 1..Len(top) |-> top[i].sentence])

\* C25: in the scored path, a joined selection longer than max_length comes
\* back as its first max_length characters cut back to the last space inside
\* them (kept whole when they hold no space) followed by "...", so that,
\* when they hold a space, what is kept ends where a word ends; a joined
\* selection that fits comes back unchanged, with no ellipsis.
C25_ScoredCutAtLastSpace ==
    (pc = "summarized" /\ summary.path = "scored" /\ ~summary.raised) =>
        LET joined == JoinedSelection(article, max_sentences)
            prefix == SubSeq(joined, 1, Min(max_length, Len(joined)))
            spaces == {i \in 1..Len(prefix) : prefix[i] = " "}
            kept == IF spaces = {} THEN prefix
                    ELSE SubSeq(prefix, 1, (CHOOSE i \in spaces : \A j \in spaces : j <= i) - 1)
        IN  IF Len(joined) > max_length
            THEN /\ summary.value = kept \o <<".", ".", ".">>
                 /\ spaces # {} =>
                       /\ joined[Len(kept) + 1] = " "
                       /\ \A i \in 1..Len(kept) : kept[i] = joined[i]
            ELSE summary.value = joined

\* A summary was cut inside a word and taken back to the end of the word
\* before; another fitted.
C25_Witness ==
    /\ pc = "summarized"
    /\ summary.path = "scored"
    /\ ~summary.raised
    /\ LET joined == JoinedSelection(article, max_sentences)
       IN  /\ Len(joined) > max_length
           /\ max_length > 0
           /\ joined[max_length] # " "
           /\ joined[max_length + 1] # " "
           /\ Len(summary.value) < max_length

(***************************************************************************)
(* The properties of the news card: summary and Learn button.               *)
(***************************************************************************)

\* C15: neither ArticleSummarizer.summarize nor
\* TutorialLinkManager.should_show_learn_button raises, whatever fields of the
\* article are missing or None.
C15_SummaryAndLearnNeverRaise ==
    /\ pc = "summarized" => ~summary.raised
    /\ pc = "classified" => ~verdict.raised

\* C16: for an article whose fields are strings or missing,
\* should_show_learn_button returns TRUE exactly when the educational score
\* is at least 2, the score counting 2 for every educational keyword that
\* occurs (as a substring, in lower case) in the title and 1 for every other
\* one that occurs in the description or the content; so it is TRUE for a
\* title with "Tutorial" and a description with "course", and FALSE when no
\* keyword occurs.
C16_LearnIffScoreAtLeastTwo ==
    (pc = "classified"
        /\ NoneText \notin {article.title, article.description, article.content}) =>
        LET title == Lower(GetText(article.title))
            others == <<Lower(GetText(article.description)), Lower(GetText(article.content))>>
            InTitle == {k \in educational_keywords : Contains(title, k)}
            Elsewhere == {k \in educational_keywords \ InTitle :
                             \E i \in 1..2 : Contains(others[i], k)}
            score == 2 * Cardinality(InTitle) + Cardinality(Elsewhere)
        IN  /\ ~verdict.raised
            /\ verdict.score = score
            /\ verdict.learn <=> score >= 2
            /\ (Contains(title, <<"t", "u", "t", "o", "r", "i", "a", "l">>)
                    /\ Contains(others[1], <<"c", "o", "u", "r", "s", "e">>)) => verdict.learn
            /\ (InTitle \cup Elsewhere = {}) => ~verdict.learn

\* The Learn button was shown for a "... Tutorial ..." title with a
\* "... course ..." description.
C16_Witness ==
    /\ pc = "classified"
    /\ article.title = CardTexts.tutorial
    /\ article.description = CardTexts.course
    /\ verdict.learn

\* C17: detect_topic tests the lower-cased "title description" against the
\* buckets programming, science, technology in this order and returns the
\* first one a keyword of which occurs as a substring; it returns "general"
\* exactly when no keyword of any bucket occurs.
C17_FirstMatchingBucket ==
    pc = "topic" =>
        LET text == Lower(FStr(GetText(article.title)) \o <<" ">>
                             \o FStr(GetText(article.description)))
            Matches(t) == \E i \in 1..Len(topic_keywords) :
                              topic_keywords[i].topic = t /\ AnyIn(text, topic_keywords[i].words)
        IN  /\ verdict.topic = "programming" <=> Matches("programming")
            /\ verdict.topic = "science" <=> (Matches("science") /\ ~Matches("programming"))
            /\ verdict.topic = "technology" <=>
                  (Matches("technology") /\ ~Matches("science") /\ ~Matches("programming"))
            /\ verdict.topic = "general" <=>
                  \A t \in {"programming", "science", "technology"} : ~Matches(t)

\* A title with keywords of all three buckets ("Physics of computer code")
\* got the first bucket.
C17_Witness ==
    /\ pc = "topic"
    /\ article.title = CardTexts.physics
    /\ verdict.topic = "programming"

(***************************************************************************)
(* The properties of the cache.                                             *)
(***************************************************************************)

\* C18: after a save_cache(articles) that succeeded at time T, load_cache at
\* time t returns exactly these articles when t - T is at most 6 hours, and
\* None when it is more or when there is no cache file; is_cache_valid() is
\* TRUE exactly when load_cache() returns the articles; T is the time of the
\* latest save.
C18_CacheExpiry ==
    LET fresh == saved.any /\ now - saved.time <= 6
    IN  /\ cache_file.exists <=> saved.any
        /\ pc = "load_cache" =>
              cache_ret = IF fresh THEN [none |-> FALSE, articles |-> saved.articles,
                                         flag |-> FALSE]
                          ELSE [none |-> TRUE, articles |-> <<>>, flag |-> FALSE]
        /\ pc = "is_cache_valid" => (cache_ret.flag <=> fresh)

\* load_cache returned the articles saved exactly 6 hours before.
C18_Witness ==
    /\ pc = "load_cache"
    /\ saved.any
    /\ now - saved.time = 6
    /\ ~cache_ret.none
    /\ cache_ret.articles = saved.articles
    /\ cache_ret.articles # <<>>

\* C19: a load_news step with force_refresh = FALSE fetches if and only if
\* load_cache yields no article (no file, expired, or an empty list) and
\* otherwise shows the cached articles without fetching; with force_refresh =
\* TRUE it always fetches; and it writes the cache only after a fetch that
\* returned at least one article, the articles written being the fetched ones.
C19_LoadNewsCacheOrFetch ==
    [][pc' = "load_news" =>
        LET usable == /\ cache_file.exists
                      /\ now - cache_file.timestamp <= 6
                      /\ cache_file.articles # <<>>
        IN  /\ screen'.fetched <=> (screen'.force \/ ~usable)
            /\ ~screen'.fetched =>
                  /\ screen'.view = "articles"
                  /\ screen'.articles = cache_file.articles
            /\ cache_file' # cache_file =>
                  /\ screen'.fetched
                  /\ ~screen'.failed
                  /\ screen'.got # <<>>
                  /\ cache_file'.articles = screen'.got
                  /\ cache_file'.timestamp = now
            /\ (screen'.fetched /\ (screen'.failed \/ screen'.got = <<>>)) =>
                  /\ cache_file' = cache_file
                  /\ screen'.view = "error"]_vars

\* More than 6 hours after the start a load_news that was not forced
\* fetched, and wrote the articles it got to the cache.
C19_Witness ==
    /\ pc = "load_news"
    /\ ~screen.force
    /\ screen.fetched
    /\ screen.got # <<>>
    /\ now > 6
    /\ cache_file.exists
    /\ cache_file.timestamp = now
    /\ cache_file.articles = screen.got

\* C23: every article an adapter produces with has_full_content = true has
\* non-empty content, items without bodyText or with an empty one included,
\* and get_full_text returns (True, content) only for such articles.
C23_FullContentIsNonEmpty ==
    pc = "news" =>
        \A i \in 1..Len(accumulated) :
            LET a == accumulated[i]
            IN  /\ a.has_full_content => a.content # ""
                /\ get_full_text(a).has_full_text =>
                       /\ a.has_full_content /\ a.content # ""
                       /\ get_full_text(a).content = a.content

\* The relevance test in the words of C24: the lowercased query is a
\* substring of the lowercased title or summary, or at least 50% of the
\* query's whitespace-split terms occur in the lowercased title or summary.
Relevant(entry, query) ==
    LET q == Lower(query)
        terms == Split(q)
        found == {i \in 1..Len(terms) :
                     \/ Contains(Lower(entry.title), terms[i])
                     \/ Contains(Lower(entry.summary), terms[i])}
    IN  \/ Contains(Lower(entry.title), q)
        \/ Contains(Lower(entry.summary), q)
        \/ 2 * Cardinality(found) >= Len(terms)

\* C24: fetch_from_source includes a feed entry if and only if the entry
\* passes the relevance test (for every entry of every feed the call read),
\* and entries failing the test are never returned.
C24_IncludedIffRelevant ==
    pc = "fetch_from_source" =>
        /\ \A j \in 1..Len(filtered.feeds) : \A k \in 1..Len(filtered.feeds[j].entries) :
               LET e == filtered.feeds[j].entries[k]
               IN  (\E i \in 1..Len(filtered.articles) : filtered.articles[i].url = e.link)
                       <=> Relevant(e, filtered.query)
        /\ \A i \in 1..Len(filtered.articles) :
               \E e \in FeedEntries :
                   e.link = filtered.articles[i].url /\ Relevant(e, filtered.query)

\* C24 as the code has it: of the entries fetch_from_source examines, the
\* first max_results entries of each feed it read, it includes exactly
\* those that pass the relevance test; entries failing the test are never
\* returned.
C24_ExaminedIncludedIffRelevant ==
    pc = "fetch_from_source" =>
        /\ \A j \in 1..Len(filtered.feeds) :
             \A k \in 1..Min(Len(filtered.feeds[j].entries), filtered.max_results) :
               LET e == filtered.feeds[j].entries[k]
               IN  (\E i \in 1..Len(filtered.articles) : filtered.articles[i].url = e.link)
                       <=> Relevant(e, filtered.query)
        /\ \A i \in 1..Len(filtered.articles) :
               \E e \in FeedEntries :
                   e.link = filtered.articles[i].url /\ Relevant(e, filtered.query)

\* An entry was included for one of the two terms of "ai go" and another
\* left out, the query being in neither.
C24_Witness ==
    /\ pc = "fetch_from_source"
    /\ filtered.query = <<"a", "i", " ", "g", "o">>
    /\ \E i \in 1..Len(filtered.articles) : filtered.articles[i].url = "l4"
    /\ filtered.max_results = MaxLimit
    /\ Len(filtered.feeds) = 2

\* The image URL of an entry in the words of C26: that of the first of
\* media-content, media-thumbnail and image-typed enclosure that provides one,
\* the empty string when none does.
FirstImageUrl(entry) ==
    LET Url(key) == IF key \in DOMAIN entry /\ entry[key] # <<>>
                    THEN GetKey(entry[key][1], "url", "") ELSE ""
        hrefs == SelectSeq(GetKey(entry, "enclosures", <<>>),
                     LAMBDA enc : /\ Contains(GetKey(enc, "type", <<>>), <<"i", "m", "a", "g", "e">>)
                                  /\ GetKey(enc, "href", "") # "")
    IN  IF Url("media_content") # "" THEN Url("media_content")
        ELSE IF Url("media_thumbnail") # "" THEN Url("media_thumbnail")
        ELSE IF hrefs # <<>> THEN hrefs[1].href
        ELSE ""

\* C26: extract_image tries media-content, media-thumbnail and image-typed
\* enclosure in this order and returns the URL of the first that provides
\* one; it returns the empty string only when none of the three does.
C26_FirstImageSourceWins ==
    pc = "extract_image" =>
        /\ ~filtered.image.raised
        /\ filtered.image.value = FirstImageUrl(filtered.entry)

\* C27: the managers of the news screen and of the bookmarks screen stay
\* consistent: the list of each equals bookmarks.json, a bookmark added on
\* the news screen is shown when the bookmarks screen is entered next, and
\* deleting a bookmark on the bookmarks screen loses no other bookmark.
C27_ManagersConsistent ==
    /\ bookmarks = bookmarks_file
    /\ shelf.bookmarks = bookmarks_file
    /\ pc = "on_enter" =>
           \A i \in 1..Len(bookmarks) : is_bookmarked(shelf.listed, bookmarks[i].url)
    /\ pc = "delete_bookmark" =>
           \A i \in 1..Len(bookmarks) :
              bookmarks[i].url # book_ret.url => is_bookmarked(bookmarks_file, bookmarks[i].url)

\* C28: whenever cache.json exists the field in its metadata is the field
\* get_user_field returns, and the news screen never shows cached articles
\* that were fetched for another field.
C28_CacheFieldIsUserField ==
    /\ cache_file.exists => cache_file.field = get_user_field(prefs)
    /\ (screen.view = "articles" /\ ~screen.fetched) =>
           cache_file.field = get_user_field(prefs)

\* C30: once stop_notifications() has been called no morning or evening
\* reminder is delivered and the scheduler loop exits at its next wake-up;
\* schedule_notifications starts no second thread while one is alive, so at
\* most one scheduler loop runs.
C30_StoppedMeansSilent ==
    /\ pc = "notify" => notifier.enabled
    /\ (pc = "scheduler" /\ ~notifier.enabled) => notifier.thread = "dead"
    /\ notifier.alive <= 1

(***************************************************************************)
(* The properties of the bookmarks.                                         *)
(***************************************************************************)

\* C20: for one BookmarkManager started on an empty store, after any sequence
\* of add_bookmark, remove_bookmark and clear_all_bookmarks no two stored
\* bookmarks share a url; add_bookmark returns False and leaves the list
\* unchanged exactly when a bookmark with the article's url is stored, and
\* otherwise returns True and stores the article; and is_bookmarked(url) is
\* TRUE exactly for the stored urls.
C20_NoDuplicateUrl ==
    /\ [](/\ \A i, j \in 1..Len(bookmarks) : i # j => bookmarks[i].url # bookmarks[j].url
          /\ pc = "is_bookmarked" =>
                (book_ret.value <=> book_ret.url \in {bookmarks[i].url : i \in 1..Len(bookmarks)}))
    /\ [][pc' = "add_bookmark" =>
            LET stored == book_ret'.url \in {bookmarks[i].url : i \in 1..Len(bookmarks)}
            IN  /\ book_ret'.value <=> ~stored
                /\ stored => bookmarks' = bookmarks
                /\ ~stored => /\ Len(bookmarks') = Len(bookmarks) + 1
                               /\ bookmarks'[1].url = book_ret'.url
                               /\ Tail(bookmarks') = bookmarks]_vars

\* An article whose url is stored was refused and the two stored bookmarks
\* were left as they were.
C20_Witness ==
    /\ pc = "add_bookmark"
    /\ ~book_ret.value
    /\ book_ret.url = "u1"
    /\ Len(bookmarks) = 2
    /\ \E i \in 1..Len(bookmarks) : bookmarks[i].url = "u1" /\ bookmarks[i].title = "B"

\* The place of the bookmark of a url in a list, 0 when it is not there.
PlaceOf(list, url) ==
    IF \E i \in 1..Len(list) : list[i].url = url
    THEN CHOOSE i \in 1..Len(list) : list[i].url = url
    ELSE 0

\* C21: get_bookmarks() lists the bookmarks most recently added first: the
\* list is ordered by decreasing time of the add that inserted each
\* remaining bookmark (a successful add puts its bookmark, stamped with the
\* time of the call, before all the others), and remove_bookmark leaves the
\* bookmarks it keeps in the order they had.
C21_MostRecentFirst ==
    /\ [](\A i, j \in 1..Len(bookmarks) :
            i < j => bookmarks[i].saved_at >= bookmarks[j].saved_at)
    /\ [][(pc' = "add_bookmark" /\ book_ret'.value) =>
             /\ bookmarks'[1].url = book_ret'.url
             /\ bookmarks'[1].saved_at = now
             /\ Tail(bookmarks') = bookmarks]_vars
    /\ [][pc' = "remove_bookmark" =>
             /\ \A i \in 1..Len(bookmarks) :
                  bookmarks[i].url # book_ret'.url => PlaceOf(bookmarks', bookmarks[i].url) > 0
             /\ \A i, j \in 1..Len(bookmarks') :
                  i < j => PlaceOf(bookmarks, bookmarks'[i].url)
                             < PlaceOf(bookmarks, bookmarks'[j].url)]_vars

\* A bookmark between two others was removed; the older and the newer one,
\* added at different times, are left.
C21_Witness ==
    /\ pc = "remove_bookmark"
    /\ Len(bookmarks) = 2
    /\ bookmarks[1].saved_at > bookmarks[2].saved_at
    /\ book_ret.url \notin {bookmarks[1].url, bookmarks[2].url}
    /\ book_ret.url = "u2"
    /\ now > bookmarks[1].saved_at

(***************************************************************************)
(* The properties of the notifications.                                     *)
(***************************************************************************)

\* C22: while the scheduler runs with notifications enabled, on every
\* calendar day it fires the morning reminder exactly once and the evening
\* reminder exactly once, each at the first check at or after its time
\* (07:00, 21:00) and never before: when a turn of the loop has ended, the
\* morning reminder has been delivered once on this day if the check was at
\* or after 07:00 and not at all if it was before, and likewise the evening
\* reminder and 21:00, whatever the drift of the loop.
C22_EachReminderOnceADay ==
    (notifier.thread = "sleep" /\ notifier.enabled) =>
        /\ notifier.mornings = (IF notifier.current_time >= Times.morning_time THEN 1 ELSE 0)
        /\ notifier.evenings = (IF notifier.current_time >= Times.evening_time THEN 1 ELSE 0)

====
